---- MODULE Spec2Model ----
(***************************************************************************)
(* The Texas Hold'em hand engine (GameEngine) as a state machine.          *)
(*                                                                         *)
(* The engine is single-threaded: every public operation (addPlayer,       *)
(* removePlayer, setPlayerConnected, startHand, handleAction and the       *)
(* auto-fold timer callback) runs to completion, so each is one action.    *)
(* The private methods are operators from an engine record to an engine    *)
(* record, composed in the order the code calls them.                      *)
(***************************************************************************)
EXTENDS Integers, Sequences, FiniteSets, TLC

VARIABLES
    players,            \* state.players, kept sorted by seatIndex
    dealerSeatIndex,    \* state.dealerSeatIndex (-1 before the first hand)
    handInProgress,     \* state.handInProgress
    bettingRound,       \* state.bettingRound
    communityCards,     \* state.communityCards; a card is named by the position
                        \* it has in the hand's shuffled deck
    pot,                \* state.pot
    currentBet,         \* state.currentBet
    minRaise,           \* state.minRaise
    lastRaiseAmount,    \* state.lastRaiseAmount
    activePlayerIndex,  \* state.activePlayerIndex (0-based, -1 for none)
    handNumber,         \* state.handNumber
    actionTimer,        \* id the pending auto-fold timer would fold, or NoId
    deckCursor,         \* HandDeck.position of the hand's deck
    winners,            \* state.winners (<<>> for null)
    events,             \* the events the last operation passed to onEvent
    ret,                \* the last call and what it returned (TRUE for a void one)
    pots,               \* the side pots calculatePots returned at this hand's showdown
    atShowdown,         \* state.players as calculatePots read them at that showdown
    startChips,         \* the chips each player brought to the hand: the stack right
                        \* after startHand's purge, the buy-in of one seated since
    rosterCalls,        \* the calls so far that changed a player from outside a hand's play
    handCards,          \* the cards evaluateBestHand was last called with
    handBest            \* the hand it returned

vars == <<players, dealerSeatIndex, handInProgress, bettingRound, communityCards,
          pot, currentBet, minRaise, lastRaiseAmount, activePlayerIndex,
          handNumber, actionTimer, deckCursor, winners, events, ret, pots,
          atShowdown, startChips, rosterCalls, handCards, handBest>>

\* The engine state proper: everything but the observation variables
\* events and ret.
engineVars == <<players, dealerSeatIndex, handInProgress, bettingRound,
                communityCards, pot, currentBet, minRaise, lastRaiseAmount,
                activePlayerIndex, handNumber, actionTimer, deckCursor,
                winners>>

----------------------------------------------------------------------------
(* Program constants *)

SmallBlind == 1
BigBlind == 2
BuyIn == 200
MaxSeatIndex == 5
MaxPlayers == 6
\* the cards of a deck: 4 suits of 13 ranks
DeckSize == 52

(* Bounds of the model *)

\* startHand is not taken once handNumber has reached this
MaxHands == 2
\* the amounts a caller passes to handleAction are 0..MaxAmount
MaxAmount == 4
\* hand strengths at showdown are 1..MaxStrength
MaxStrength == 3
\* at most this many addPlayer, removePlayer and setPlayerConnected calls
\* change the roster
MaxRosterCalls == 1

NoId == "none"
NoAction == "none"

\* The ids that call the engine; "D" takes a seat while the model runs.
Ids == {"A", "B", "C", "D"}
\* what a caller can pass as action: the five PlayerAction values and one
\* string that is none of them
Actions == {"fold", "check", "call", "raise", "all-in", "bogus"}
Amounts == 0..MaxAmount
\* the tables the model starts from: the chip stacks of the players in
\* seats 0, 2 and 4 (two stacks: seats 0 and 2 only)
Tables == {<<6, 2, 2>>, <<6, 2, 1>>, <<5, 6>>}
SeatedIds == <<"A", "B", "C">>
\* the seats addPlayer is called with: a free seat between two seated
\* players, an occupied seat, and a seat out of range
JoinSeats == {1, 2, 6}

Min(a, b) == IF a < b THEN a ELSE b

----------------------------------------------------------------------------
(* Records *)

NewPlayer(id, seatIndex, chips) ==
    [id |-> id, seatIndex |-> seatIndex, chips |-> chips, holeCards |-> <<>>,
     currentBet |-> 0, totalBetThisRound |-> 0, hasFolded |-> FALSE,
     isAllIn |-> FALSE, isSittingOut |-> FALSE, isConnected |-> TRUE,
     lastAction |-> NoAction]

\* A GameEvent.  Every event has all the fields, the ones its type does
\* not carry at their defaults; amount is the player's currentBet in
\* player_acted and the number of community cards in community.
Event(type, playerId, action, amount, potNow) ==
    [type |-> type, playerId |-> playerId, action |-> action,
     amount |-> amount, pot |-> potNow, results |-> <<>>,
     validActions |-> <<>>, cards |-> <<>>, players |-> <<>>]

\* The engine as one record, for the operators below.  showdownPending is
\* set where the code calls showdown(), which is always the last thing a
\* handler does; the action then runs showdown with the hand strengths
\* the shuffled deck gave.
Engine ==
    [players |-> players, dealerSeatIndex |-> dealerSeatIndex,
     handInProgress |-> handInProgress, bettingRound |-> bettingRound,
     communityCards |-> communityCards, pot |-> pot, currentBet |-> currentBet,
     minRaise |-> minRaise, lastRaiseAmount |-> lastRaiseAmount,
     activePlayerIndex |-> activePlayerIndex, handNumber |-> handNumber,
     actionTimer |-> actionTimer, deckCursor |-> deckCursor,
     winners |-> winners,
     events |-> <<>>, pots |-> pots, atShowdown |-> atShowdown,
     startChips |-> startChips,
     result |-> TRUE, showdownPending |-> FALSE]

Emit(s, e) == [s EXCEPT !.events = Append(@, e)]

----------------------------------------------------------------------------
(* Array helpers *)

\* Array.prototype.findIndex: 0-based index of the first match, or -1
FindIndex(seq, Test(_)) ==
    IF \E i \in 1..Len(seq) : Test(seq[i])
    THEN (CHOOSE i \in 1..Len(seq) :
            Test(seq[i]) /\ \A j \in 1..(i - 1) : ~Test(seq[j])) - 1
    ELSE -1

\* players.indexOf(player): players are distinct objects, told apart by id
IndexOfId(seq, id) == FindIndex(seq, LAMBDA p : p.id = id)

\* sum of a sequence of numbers
RECURSIVE SumSeq(_)
SumSeq(seq) == IF seq = <<>> THEN 0 ELSE Head(seq) + SumSeq(Tail(seq))

IdsOf(seq) == {seq[i].id : i \in 1..Len(seq)}

\* seq with the player of this id replaced by F(player)
UpdatePlayer(seq, id, F(_)) ==
    [i \in 1..Len(seq) |-> IF seq[i].id = id THEN F(seq[i]) ELSE seq[i]]

\* Array.prototype.sort((a, b) => a.seatIndex - b.seatIndex) after a push:
\* seq is sorted and seat indices are distinct, so p goes before the first
\* player with a larger seat index
RECURSIVE InsertBySeat(_, _)
InsertBySeat(seq, p) ==
    IF seq = <<>> THEN <<p>>
    ELSE IF p.seatIndex < Head(seq).seatIndex THEN <<p>> \o seq
    ELSE <<Head(seq)>> \o InsertBySeat(Tail(seq), p)

----------------------------------------------------------------------------
(* Helpers of the engine *)

getActivePlayers(s) ==
    SelectSeq(s.players,
              LAMBDA p : ~p.isSittingOut /\ p.chips >= 0 /\ p.isConnected)

getPlayersWhoCanAct(s) ==
    SelectSeq(s.players,
              LAMBDA p : ~p.hasFolded /\ ~p.isAllIn /\ p.isConnected)

NotFolded(s) == SelectSeq(s.players, LAMBDA p : ~p.hasFolded)

\* getActivePlayer() !== null
HasActivePlayer(s) ==
    s.activePlayerIndex >= 0 /\ s.activePlayerIndex < Len(s.players)

\* getActivePlayer(), where it is not null
getActivePlayer(s) == s.players[s.activePlayerIndex + 1]

\* getActivePlayer()?.id
ActiveId(s) == IF HasActivePlayer(s) THEN getActivePlayer(s).id ELSE NoId

\* a faulty getPublicPlayers that hands out the players as they are
getPublicPlayers_whole(s) == s.players

\* getPublicPlayers(): what of each player goes into hand_start and hand_end
getPublicPlayers(s) ==
    [i \in 1..Len(s.players) |->
        [id |-> s.players[i].id, seatIndex |-> s.players[i].seatIndex,
         chips |-> s.players[i].chips, currentBet |-> s.players[i].currentBet,
         hasFolded |-> s.players[i].hasFolded, isAllIn |-> s.players[i].isAllIn,
         lastAction |-> s.players[i].lastAction]]

clearActionTimer(s) == [s EXCEPT !.actionTimer = NoId]

----------------------------------------------------------------------------
(* Starting a hand *)

\* a faulty canStartHand that counts the players without chips
canStartHand_bustedToo(s) ==
    /\ Len(SelectSeq(s.players,
                     LAMBDA p : p.isConnected /\ p.chips >= 0 /\ ~p.isSittingOut)) >= 2
    /\ ~s.handInProgress

canStartHand(s) ==
    /\ Len(SelectSeq(s.players,
                     LAMBDA p : p.isConnected /\ p.chips > 0 /\ ~p.isSittingOut)) >= 2
    /\ ~s.handInProgress

\* a faulty advanceDealer that leaves the button where it is
advanceDealer_stays(s) == s

advanceDealer(s) ==
    LET activePlayers == getActivePlayers(s) IN
    IF Len(activePlayers) = 0 THEN s
    ELSE IF s.dealerSeatIndex = -1
    THEN [s EXCEPT !.dealerSeatIndex = activePlayers[1].seatIndex]
    ELSE LET currentIdx == FindIndex(activePlayers,
                                     LAMBDA p : p.seatIndex = s.dealerSeatIndex)
             nextIdx == (currentIdx + 1) % Len(activePlayers)
         IN [s EXCEPT !.dealerSeatIndex = activePlayers[nextIdx + 1].seatIndex]

\* a faulty postBlind that takes the blind from the player without adding it
\* to the pot
postBlind_potUntouched(s, id, amount) ==
    LET player == s.players[IndexOfId(s.players, id) + 1]
        actualAmount == Min(amount, player.chips)
        Post(p) == [p EXCEPT !.chips = @ - actualAmount,
                             !.currentBet = actualAmount,
                             !.totalBetThisRound = actualAmount,
                             !.isAllIn = IF p.chips - actualAmount = 0
                                         THEN TRUE ELSE @]
    IN [s EXCEPT !.players = UpdatePlayer(@, id, Post)]

postBlind(s, id, amount) ==
    LET player == s.players[IndexOfId(s.players, id) + 1]
        actualAmount == Min(amount, player.chips)
        Post(p) == [p EXCEPT !.chips = @ - actualAmount,
                             !.currentBet = actualAmount,
                             !.totalBetThisRound = actualAmount,
                             !.isAllIn = IF p.chips - actualAmount = 0
                                         THEN TRUE ELSE @]
    IN [s EXCEPT !.players = UpdatePlayer(@, id, Post),
                 !.pot = @ + actualAmount]

\* a faulty postBlinds that sets currentBet to what the big blind player
\* actually posted
postBlinds_betAsPosted(s) ==
    LET activePlayers == getActivePlayers(s)
        n == Len(activePlayers)
        dealerIdx == FindIndex(activePlayers,
                               LAMBDA p : p.seatIndex = s.dealerSeatIndex)
        sbIdx == IF n = 2 THEN dealerIdx ELSE (dealerIdx + 1) % n
        bbIdx == IF n = 2 THEN (dealerIdx + 1) % n ELSE (dealerIdx + 2) % n
    IN IF n < 2 THEN s
       ELSE [postBlind(postBlind(s, activePlayers[sbIdx + 1].id, SmallBlind),
                       activePlayers[bbIdx + 1].id, BigBlind)
                EXCEPT !.currentBet = Min(BigBlind, activePlayers[bbIdx + 1].chips)]

\* a faulty postBlinds that takes the small blind from the seat after the
\* dealer in a heads-up hand too
postBlinds_headsUpAsRing(s) ==
    LET activePlayers == getActivePlayers(s)
        n == Len(activePlayers)
        dealerIdx == FindIndex(activePlayers,
                               LAMBDA p : p.seatIndex = s.dealerSeatIndex)
        sbIdx == (dealerIdx + 1) % n
        bbIdx == (dealerIdx + 2) % n
    IN IF n < 2 THEN s
       ELSE [postBlind(postBlind(s, activePlayers[sbIdx + 1].id, SmallBlind),
                       activePlayers[bbIdx + 1].id, BigBlind)
                EXCEPT !.currentBet = BigBlind]

postBlinds(s) ==
    LET activePlayers == getActivePlayers(s)
        n == Len(activePlayers)
        dealerIdx == FindIndex(activePlayers,
                               LAMBDA p : p.seatIndex = s.dealerSeatIndex)
        sbIdx == IF n = 2 THEN dealerIdx ELSE (dealerIdx + 1) % n
        bbIdx == IF n = 2 THEN (dealerIdx + 1) % n ELSE (dealerIdx + 2) % n
    IN IF n < 2 THEN s
       ELSE [postBlind(postBlind(s, activePlayers[sbIdx + 1].id, SmallBlind),
                       activePlayers[bbIdx + 1].id, BigBlind)
                EXCEPT !.currentBet = BigBlind]

\* SUITS, RANKS and RANK_VALUES
Suits == <<"hearts", "diamonds", "clubs", "spades">>
Ranks == <<"2", "3", "4", "5", "6", "7", "8", "9", "10", "J", "Q", "K", "A">>
RankValues ==
    [r \in {Ranks[k] : k \in 1..Len(Ranks)} |->
        (CHOOSE k \in 1..Len(Ranks) : Ranks[k] = r) + 1]

Card(rank, suit) == [rank |-> rank, suit |-> suit]

\* createDeck(): for every suit, every rank
createDeck ==
    [k \in 1..(Len(Suits) * Len(Ranks)) |->
        Card(Ranks[((k - 1) % Len(Ranks)) + 1],
             Suits[((k - 1) \div Len(Ranks)) + 1])]

\* the loop of shuffleDeck from index i (0-based) down to 1
RECURSIVE shuffleFrom(_, _, _)
shuffleFrom(deck, randomValues, i) ==
    IF i <= 0 THEN deck
    ELSE LET j == randomValues[i + 1] % (i + 1)
         IN shuffleFrom([deck EXCEPT ![i + 1] = deck[j + 1], ![j + 1] = deck[i + 1]],
                        randomValues, i - 1)

\* shuffleDeck(deck) where crypto.getRandomValues gave randomValues
shuffleDeck(deck, randomValues) == shuffleFrom(deck, randomValues, Len(deck) - 1)

\* a faulty deal() that leaves the cursor where it is
deal_cursorStays(s) ==
    IF s.deckCursor >= DeckSize THEN [s EXCEPT !.result = FALSE] ELSE s

\* HandDeck.deal(), as far as the engine's state goes: the cursor moves over
\* one card.  With the deck used up the code throws; result tells.
deal(s) ==
    IF s.deckCursor >= DeckSize THEN [s EXCEPT !.result = FALSE]
    ELSE [s EXCEPT !.deckCursor = @ + 1]

\* the card deal() returns: the one under the cursor
dealt(s) == s.deckCursor

\* HandDeck.dealMultiple(count): the deck after count calls of deal()
RECURSIVE dealMultiple(_, _)
dealMultiple(s, count) ==
    IF count = 0 THEN s ELSE dealMultiple(deal(s), count - 1)

\* the cards dealMultiple(count) returns
dealtMultiple(s, count) == [k \in 1..count |-> dealt(dealMultiple(s, k - 1))]

\* HandDeck.burn()
\* a faulty burn that discards two cards
burn_twoCards(s) == deal(deal(s))

burn(s) == deal(s)

\* the loop of dealHoleCards from the i-th active player on
RECURSIVE dealHoleCardsFrom(_, _, _)
dealHoleCardsFrom(s, activePlayers, i) ==
    IF i > Len(activePlayers) THEN s
    ELSE LET id == activePlayers[i].id
             player == s.players[IndexOfId(s.players, id) + 1]
         IN IF player.hasFolded
            THEN dealHoleCardsFrom(s, activePlayers, i + 1)
            ELSE dealHoleCardsFrom(
                    Emit([dealMultiple(s, 2) EXCEPT
                             !.players = UpdatePlayer(@, id,
                                 LAMBDA p : [p EXCEPT
                                     !.holeCards = dealtMultiple(s, 2)])],
                         [Event("hole_cards", id, NoAction, 2, 0)
                            EXCEPT !.cards = dealtMultiple(s, 2)]),
                    activePlayers, i + 1)

dealHoleCards(s) == dealHoleCardsFrom(s, getActivePlayers(s), 1)

----------------------------------------------------------------------------
(* The hand evaluator *)

\* enum HandRank
HighCard == 0
OnePair == 1
TwoPair == 2
ThreeOfAKind == 3
Straight == 4
Flush == 5
FullHouse == 6
FourOfAKind == 7
StraightFlush == 8
RoyalFlush == 9

\* what evaluateBestHand has returned where it was not called yet
NoHand == [rank |-> -1, values |-> <<>>, cards |-> <<>>]

makeResult(rank, values, cards) == [rank |-> rank, values |-> values, cards |-> cards]

\* a faulty compareHands that looks at the first tiebreaker value before
\* the rank
compareHands_valueFirst(a, b) ==
    IF Len(a.values) > 0 /\ Len(b.values) > 0 /\ a.values[1] # b.values[1]
    THEN a.values[1] - b.values[1]
    ELSE a.rank - b.rank

\* compareHands(a, b): > 0 if a beats b, < 0 if b beats a, 0 if tie
compareHands(a, b) ==
    IF a.rank # b.rank THEN a.rank - b.rank
    ELSE LET n == Min(Len(a.values), Len(b.values))
             differ == {i \in 1..n : a.values[i] # b.values[i]}
         IN IF differ = {} THEN 0
            ELSE LET i == CHOOSE k \in differ : \A l \in differ : k <= l
                 IN a.values[i] - b.values[i]

\* [...cards].sort((a, b) => RANK_VALUES[b.rank] - RANK_VALUES[a.rank]): the
\* sort is stable, so a card goes behind the cards of its rank already there
InsertByRank(sorted, card) ==
    LET ahead == {i \in 1..Len(sorted) :
                     RankValues[sorted[i].rank] >= RankValues[card.rank]}
        n == Cardinality(ahead)
    IN SubSeq(sorted, 1, n) \o <<card>> \o SubSeq(sorted, n + 1, Len(sorted))

RECURSIVE SortByRank(_)
SortByRank(cards) ==
    IF cards = <<>> THEN <<>>
    ELSE InsertByRank(SortByRank(SubSeq(cards, 1, Len(cards) - 1)), cards[Len(cards)])

checkStraight(values) ==
    \A i \in 1..(Len(values) - 1) : values[i] - values[i + 1] = 1

\* a faulty checkWheelStraight that takes any ace-high hand with a five
checkWheelStraight_aceAndFive(values) ==
    Len(values) = 5 /\ values[1] = 14 /\ values[2] = 5

checkWheelStraight(values) ==
    LET wheelValues == <<14, 5, 4, 3, 2>>
    IN Len(values) = 5 /\ \A i \in 1..Len(values) : values[i] = wheelValues[i]

\* the entries [value, count] of rankCounts, sorted by count descending, then
\* by value descending
RECURSIVE SortCounts(_, _)
SortCounts(valueSet, values) ==
    IF valueSet = {} THEN <<>>
    ELSE LET Count(v) == Cardinality({i \in 1..Len(values) : values[i] = v})
             top == CHOOSE v \in valueSet : \A w \in valueSet \ {v} :
                        Count(v) > Count(w) \/ (Count(v) = Count(w) /\ v > w)
         IN <<<<top, Count(top)>>>> \o SortCounts(valueSet \ {top}, values)

\* values sorted descending
RECURSIVE SortDescending(_)
SortDescending(valueSet) ==
    IF valueSet = {} THEN <<>>
    ELSE LET top == CHOOSE v \in valueSet : \A w \in valueSet : v >= w
         IN <<top>> \o SortDescending(valueSet \ {top})

evaluateFiveCards(cards) ==
    LET sorted == SortByRank(cards)
        values == [i \in 1..Len(sorted) |-> RankValues[sorted[i].rank]]
        suits == [i \in 1..Len(sorted) |-> sorted[i].suit]
        isFlush == \A i \in 1..Len(suits) : suits[i] = suits[1]
        isStraight == checkStraight(values)
        isWheelStraight == checkWheelStraight(values)
        counts == SortCounts({values[i] : i \in 1..Len(values)}, values)
        \* counts.slice(1).map(c => c[0])
        rest == [k \in 1..(Len(counts) - 1) |-> counts[k + 1][1]]
    IN IF isFlush /\ isStraight
       THEN IF values[1] = 14 /\ values[2] = 13
            THEN makeResult(RoyalFlush, <<14>>, sorted)
            ELSE makeResult(StraightFlush, <<values[1]>>, sorted)
       ELSE IF isFlush /\ isWheelStraight
       THEN makeResult(StraightFlush, <<5>>, sorted)
       ELSE IF counts[1][2] = 4
       THEN makeResult(FourOfAKind, <<counts[1][1], counts[2][1]>>, sorted)
       ELSE IF counts[1][2] = 3 /\ counts[2][2] = 2
       THEN makeResult(FullHouse, <<counts[1][1], counts[2][1]>>, sorted)
       ELSE IF isFlush
       THEN makeResult(Flush, values, sorted)
       ELSE IF isStraight
       THEN makeResult(Straight, <<values[1]>>, sorted)
       ELSE IF isWheelStraight
       THEN makeResult(Straight, <<5>>, sorted)
       ELSE IF counts[1][2] = 3
       THEN makeResult(ThreeOfAKind, <<counts[1][1]>> \o rest, sorted)
       ELSE IF counts[1][2] = 2 /\ counts[2][2] = 2
       THEN LET highPair == IF counts[1][1] > counts[2][1]
                            THEN counts[1][1] ELSE counts[2][1]
                lowPair == Min(counts[1][1], counts[2][1])
            IN makeResult(TwoPair, <<highPair, lowPair, counts[3][1]>>, sorted)
       ELSE IF counts[1][2] = 2
       THEN makeResult(OnePair,
                       <<counts[1][1]>>
                       \o SortDescending({rest[k] : k \in 1..Len(rest)}), sorted)
       ELSE makeResult(HighCard, values, sorted)

\* getCombinations(arr, k): backtrack(start, current) gives, in this order,
\* the combinations that start with current and go on from index start
RECURSIVE backtrack(_, _, _, _)
backtrack(arr, k, start, current) ==
    IF Len(current) = k THEN <<current>>
    ELSE LET RECURSIVE from(_)
             from(i) == IF i > Len(arr) THEN <<>>
                        ELSE backtrack(arr, k, i + 1, Append(current, arr[i]))
                             \o from(i + 1)
         IN from(start)

getCombinations(arr, k) == backtrack(arr, k, 1, <<>>)

\* a faulty loop that keeps the first combination
BestOf_first(combos, i, best) ==
    IF Len(combos) = 0 THEN best ELSE evaluateFiveCards(combos[1])

\* the loop of evaluateBestHand over the combinations from the i-th on
RECURSIVE BestOf(_, _, _)
BestOf(combos, i, best) ==
    IF i > Len(combos) THEN best
    ELSE LET evaluated == evaluateFiveCards(combos[i])
         IN BestOf(combos, i + 1,
                   IF best = NoHand \/ compareHands(evaluated, best) > 0
                   THEN evaluated ELSE best)

\* evaluateBestHand(cards); with fewer than five cards the code throws, and
\* nothing is returned
evaluateBestHand(cards) ==
    IF Len(cards) < 5 THEN NoHand
    ELSE BestOf(getCombinations(cards, 5), 1, NoHand)

----------------------------------------------------------------------------
(* Ending a hand *)

\* a faulty endHand that leaves the seat of the last actor active
endHand_keepsActive(s) ==
    LET s1 == [clearActionTimer(s) EXCEPT
                  !.handInProgress = FALSE,
                  !.players = SelectSeq(@, LAMBDA p : p.isConnected \/ p.chips > 0)]
    IN Emit(s1, [Event("hand_end", NoId, NoAction, 0, s1.pot)
                    EXCEPT !.players = getPublicPlayers(s1)])

endHand(s) ==
    LET s1 == [clearActionTimer(s) EXCEPT
                  !.handInProgress = FALSE,
                  !.activePlayerIndex = -1,
                  !.players = SelectSeq(@, LAMBDA p : p.isConnected \/ p.chips > 0)]
    IN Emit(s1, [Event("hand_end", NoId, NoAction, 0, s1.pot)
                    EXCEPT !.players = getPublicPlayers(s1)])

\* endHandFold(winner); winner is NoId where the code passes undefined
endHandFold(s, winner) ==
    IF winner # NoId
    THEN LET s1 == [s EXCEPT !.players = UpdatePlayer(@, winner,
                                LAMBDA p : [p EXCEPT !.chips = @ + s.pot]),
                             !.winners = <<[playerId |-> winner, amount |-> s.pot,
                                            potIndex |-> 0]>>]
             result == [playerId |-> winner, cards |-> <<>>, shown |-> FALSE,
                        winAmount |-> s.pot]
         IN endHand(Emit(s1, [Event("showdown", NoId, NoAction, 0, s.pot)
                                EXCEPT !.results = <<result>>]))
    ELSE endHand(s)

----------------------------------------------------------------------------
(* Betting rounds *)

getNextBettingRound(round) ==
    CASE round = "preflop" -> "flop"
      [] round = "flop" -> "turn"
      [] round = "turn" -> "river"
      [] OTHER -> "none"

\* a faulty dealCommunityCards that burns no card
dealCommunityCards_noBurn(s, round) ==
    LET n == IF round = "flop" THEN 3 ELSE 1
        s1 == [dealMultiple(s, n) EXCEPT
                  !.communityCards = @ \o dealtMultiple(s, n)]
    IN Emit(s1, [Event("community", NoId, round, Len(s1.communityCards), s1.pot)
                    EXCEPT !.cards = s1.communityCards])

dealCommunityCards(s, round) ==
    LET n == IF round = "flop" THEN 3 ELSE 1
        burnt == burn(s)
        s1 == [dealMultiple(burnt, n) EXCEPT
                  !.communityCards = @ \o dealtMultiple(burnt, n)]
    IN Emit(s1, [Event("community", NoId, round, Len(s1.communityCards), s1.pot)
                    EXCEPT !.cards = s1.communityCards])

findFirstActor(s) ==
    LET activePlayers == getActivePlayers(s)
        n == Len(activePlayers)
        dealerIdx == FindIndex(activePlayers,
                               LAMBDA p : p.seatIndex = s.dealerSeatIndex)
        startIdx == IF s.bettingRound = "preflop"
                    THEN IF n = 2 THEN dealerIdx ELSE (dealerIdx + 3) % n
                    ELSE (dealerIdx + 1) % n
        Can(i) == LET player == activePlayers[((startIdx + i) % n) + 1]
                  IN ~player.hasFolded /\ ~player.isAllIn
    IN IF \E i \in 0..(n - 1) : Can(i)
       THEN LET i == CHOOSE i \in 0..(n - 1) :
                        Can(i) /\ \A j \in 0..(i - 1) : ~Can(j)
                player == activePlayers[((startIdx + i) % n) + 1]
            IN [s EXCEPT !.activePlayerIndex = IndexOfId(s.players, player.id)]
       ELSE s

RECURSIVE advanceToNextRound(_)
RECURSIVE startBettingRound(_)
RECURSIVE promptAction(_)

\* A ValidAction; minAmount and maxAmount are 0 where the code leaves them
\* out (fold and check).
ValidAction(action, minAmount, maxAmount) ==
    [action |-> action, minAmount |-> minAmount, maxAmount |-> maxAmount]

\* a faulty getValidActions that offers a raise to a player whose stack
\* just covers the call
getValidActions_raiseAtCall(s, player) ==
    LET toCall == s.currentBet - player.currentBet
        minRaiseTotal == s.currentBet + s.minRaise
        minRaiseAmount == Min(minRaiseTotal - player.currentBet, player.chips)
        maxRaiseAmount == player.chips
    IN <<ValidAction("fold", 0, 0)>>
       \o (IF toCall <= 0 THEN <<ValidAction("check", 0, 0)>>
           ELSE IF toCall >= player.chips
           THEN <<ValidAction("call", player.chips, player.chips)>>
           ELSE <<ValidAction("call", toCall, toCall)>>)
       \o (IF player.chips >= toCall /\ minRaiseAmount <= maxRaiseAmount
           THEN <<ValidAction("raise", minRaiseAmount, maxRaiseAmount)>>
           ELSE <<>>)

getValidActions(s, player) ==
    LET toCall == s.currentBet - player.currentBet
        minRaiseTotal == s.currentBet + s.minRaise
        minRaiseAmount == Min(minRaiseTotal - player.currentBet, player.chips)
        maxRaiseAmount == player.chips
    IN <<ValidAction("fold", 0, 0)>>
       \o (IF toCall <= 0 THEN <<ValidAction("check", 0, 0)>>
           ELSE IF toCall >= player.chips
           THEN <<ValidAction("call", player.chips, player.chips)>>
           ELSE <<ValidAction("call", toCall, toCall)>>)
       \o (IF player.chips > toCall /\ minRaiseAmount <= maxRaiseAmount
           THEN <<ValidAction("raise", minRaiseAmount, maxRaiseAmount)>>
           ELSE <<>>)

promptAction(s) ==
    IF ~HasActivePlayer(s) THEN advanceToNextRound(s)
    ELSE LET player == getActivePlayer(s)
         IN [Emit(s, [Event("action_on", player.id, NoAction, s.currentBet, s.pot)
                         EXCEPT !.validActions = getValidActions(s, player)])
                EXCEPT !.actionTimer = player.id]

startBettingRound(s) ==
    LET s1 == IF s.bettingRound # "preflop"
              THEN Emit([s EXCEPT
                            !.players = [i \in 1..Len(s.players) |->
                                [s.players[i] EXCEPT !.currentBet = 0,
                                                     !.lastAction = NoAction]],
                            !.currentBet = 0,
                            !.minRaise = BigBlind,
                            !.lastRaiseAmount = BigBlind],
                        Event("pot_update", NoId, NoAction, 0, s.pot))
              ELSE s
        canAct == getPlayersWhoCanAct(s1)
        notFolded == NotFolded(s1)
    IN IF Len(notFolded) <= 1 \/ Len(canAct) = 0
       THEN advanceToNextRound(s1)
       ELSE promptAction(findFirstActor(s1))

\* a faulty advanceToNextRound that opens a betting round even when at most
\* one player can still act
advanceToNextRound_alwaysBet(s) ==
    LET notFolded == NotFolded(s)
        nextRound == getNextBettingRound(s.bettingRound)
    IN IF Len(notFolded) <= 1
       THEN endHandFold(s, IF Len(notFolded) = 0 THEN NoId ELSE notFolded[1].id)
       ELSE IF nextRound = "none"
       THEN [s EXCEPT !.showdownPending = TRUE]
       ELSE startBettingRound(dealCommunityCards(
                [s EXCEPT !.bettingRound = nextRound], nextRound))

advanceToNextRound(s) ==
    LET notFolded == NotFolded(s)
        canAct == SelectSeq(notFolded, LAMBDA p : ~p.isAllIn)
        nextRound == getNextBettingRound(s.bettingRound)
    IN IF Len(notFolded) <= 1
       THEN endHandFold(s, IF Len(notFolded) = 0 THEN NoId ELSE notFolded[1].id)
       ELSE IF nextRound = "none"
       THEN [s EXCEPT !.showdownPending = TRUE]
       ELSE LET s1 == dealCommunityCards([s EXCEPT !.bettingRound = nextRound],
                                         nextRound)
            IN IF Len(canAct) <= 1
               THEN advanceToNextRound(s1)
               ELSE startBettingRound(s1)

\* startHand up to the reset of the players: the purge and the new hand's
\* fields
startHandReset(s) ==
    LET kept == SelectSeq(s.players, LAMBDA p : p.chips > 0 /\ p.isConnected)
    IN [s EXCEPT
       !.players = [i \in 1..Len(kept) |->
           [kept[i] EXCEPT
               !.holeCards = <<>>,
               !.currentBet = 0,
               !.totalBetThisRound = 0,
               !.hasFolded = ~kept[i].isConnected
                             \/ kept[i].chips = 0
                             \/ kept[i].isSittingOut,
               !.isAllIn = FALSE,
               !.lastAction = NoAction]],
       !.handInProgress = TRUE,
       !.handNumber = @ + 1,
       !.communityCards = <<>>,
       !.pot = 0,
       !.currentBet = 0,
       !.minRaise = BigBlind,
       !.lastRaiseAmount = BigBlind,
       !.bettingRound = "preflop",
       !.deckCursor = 0,
       !.winners = <<>>,
       !.pots = <<>>,
       !.atShowdown = <<>>,
       !.startChips = [id \in IdsOf(kept) |->
           kept[IndexOfId(kept, id) + 1].chips]]

\* startHand up to the blinds: the button has moved and the blinds are
\* posted
startHandBlinds(s) == postBlinds(advanceDealer(startHandReset(s)))

startHand(s) ==
    IF ~canStartHand(s) THEN s
    ELSE LET s2 == startHandBlinds(s)
             s3 == Emit(s2, [Event("hand_start", NoId, NoAction,
                                   s2.dealerSeatIndex, s2.pot)
                                EXCEPT !.players = getPublicPlayers(s2)])
         IN startBettingRound([dealHoleCards(s3) EXCEPT !.bettingRound = "preflop"])

----------------------------------------------------------------------------
(* Player actions *)

findNextActor(s) ==
    LET activePlayers == getActivePlayers(s)
        n == Len(activePlayers)
        currentPlayer == getActivePlayer(s)
        byRef == IndexOfId(activePlayers, currentPlayer.id)
        bySeat == FindIndex(activePlayers,
                            LAMBDA p : p.seatIndex >= currentPlayer.seatIndex)
        currentActiveIdx == IF byRef >= 0 THEN byRef
                            ELSE IF bySeat >= 0 THEN bySeat ELSE 0
        At(i) == activePlayers[((currentActiveIdx + i) % n) + 1]
        Can(i) == /\ ~At(i).hasFolded /\ ~At(i).isAllIn
                  /\ \/ At(i).currentBet < s.currentBet
                     \/ s.bettingRound = "preflop" /\ At(i).lastAction = NoAction
    IN IF ~HasActivePlayer(s) THEN NoId
       ELSE IF \E i \in 1..n : Can(i)
       THEN At(CHOOSE i \in 1..n : Can(i) /\ \A j \in 1..(i - 1) : ~Can(j)).id
       ELSE NoId

advanceAction(s) ==
    LET nextPlayer == findNextActor(s) IN
    IF nextPlayer = NoId THEN advanceToNextRound(s)
    ELSE promptAction([s EXCEPT
            !.activePlayerIndex = IndexOfId(s.players, nextPlayer)])

\* the chips a raise or all-in adds: amount 0 stands for an absent amount too
\* (both are falsy)
RaiseAmount(player, action, amount) ==
    IF action = "all-in" \/ (amount # 0 /\ amount >= player.chips)
    THEN player.chips
    ELSE amount

\* the tail of handleAction once the switch has accepted the action:
\* player_acted, then the end of the hand or the next actor
AfterAction(s, id) ==
    LET player == s.players[IndexOfId(s.players, id) + 1]
        s1 == Emit(s, Event("player_acted", id, player.lastAction,
                            player.currentBet, s.pot))
        notFolded == NotFolded(s1)
    IN IF Len(notFolded) <= 1
       THEN endHandFold(s1, IF Len(notFolded) = 0 THEN NoId ELSE notFolded[1].id)
       ELSE advanceAction(s1)

Rejected(s) == [s EXCEPT !.result = FALSE]

\* a faulty guard that only asks for some player to be on action
NotActivePlayer_anyId(s, playerId) == ~HasActivePlayer(s)

\* the second early return of handleAction: playerId is not the active player
NotActivePlayer(s, playerId) ==
    ~HasActivePlayer(s) \/ ActiveId(s) # playerId

\* a faulty test that takes every raise over the table's bet for a full one
IsFullRaise_anyRaise(s, raiseOver) == raiseOver > 0

\* the test that lets a raise reset minRaise and lastRaiseAmount
IsFullRaise(s, raiseOver) == raiseOver > 0 /\ raiseOver >= s.minRaise

\* a faulty test that rejects every raise below the minimum, all-in or not
RaiseRejected_allInToo(player, raiseAmount, minAllowedBet) ==
    raiseAmount < minAllowedBet

\* a faulty test that rejects no raise
RaiseRejected_never(player, raiseAmount, minAllowedBet) == FALSE

\* the test that rejects a raise: below the minimum and not the whole stack
RaiseRejected(player, raiseAmount, minAllowedBet) ==
    raiseAmount < minAllowedBet /\ raiseAmount < player.chips

handleAction(s, playerId, action, amount) ==
    IF IndexOfId(s.players, playerId) = -1 THEN Rejected(s)
    ELSE IF NotActivePlayer(s, playerId) THEN Rejected(s)
    ELSE
    LET s0 == clearActionTimer(s)
        player == s.players[IndexOfId(s.players, playerId) + 1]
        toCall == s.currentBet - player.currentBet
    IN CASE action = "fold" ->
              AfterAction([s0 EXCEPT !.players = UpdatePlayer(@, playerId,
                              LAMBDA p : [p EXCEPT !.hasFolded = TRUE,
                                                   !.lastAction = "fold"])],
                          playerId)
         [] action = "check" ->
              IF toCall > 0 THEN Rejected(s0)
              ELSE AfterAction([s0 EXCEPT !.players = UpdatePlayer(@, playerId,
                                   LAMBDA p : [p EXCEPT !.lastAction = "check"])],
                               playerId)
         [] action = "call" ->
              LET callAmount == Min(toCall, player.chips)
              IN AfterAction([s0 EXCEPT
                     !.players = UpdatePlayer(@, playerId,
                         LAMBDA p : [p EXCEPT
                             !.chips = @ - callAmount,
                             !.currentBet = @ + callAmount,
                             !.totalBetThisRound = @ + callAmount,
                             !.lastAction = "call",
                             !.isAllIn = IF p.chips - callAmount = 0
                                         THEN TRUE ELSE @]),
                     !.pot = @ + callAmount],
                   playerId)
         [] action \in {"raise", "all-in"} ->
              LET raiseAmount == RaiseAmount(player, action, amount)
                  minRaiseTotal == s.currentBet + s.minRaise
                  minAllowedBet == minRaiseTotal - player.currentBet
                  newBet == player.currentBet + raiseAmount
                  raiseOver == newBet - s.currentBet
                  full == IsFullRaise(s, raiseOver)
              IN IF RaiseRejected(player, raiseAmount, minAllowedBet)
                 THEN Rejected(s0)
                 ELSE AfterAction([s0 EXCEPT
                        !.lastRaiseAmount = IF full THEN raiseOver ELSE @,
                        !.minRaise = IF full THEN raiseOver ELSE @,
                        !.players = UpdatePlayer(@, playerId,
                            LAMBDA p : [p EXCEPT
                                !.chips = @ - raiseAmount,
                                !.currentBet = newBet,
                                !.totalBetThisRound = @ + raiseAmount,
                                !.isAllIn = IF p.chips - raiseAmount = 0
                                            THEN TRUE ELSE @,
                                !.lastAction = IF p.chips - raiseAmount = 0
                                               THEN "all-in" ELSE "raise"]),
                        !.pot = @ + raiseAmount,
                        !.currentBet = IF newBet > @ THEN newBet ELSE @],
                      playerId)
         [] OTHER -> Rejected(s0)

----------------------------------------------------------------------------
(* Roster *)

\* a faulty addPlayer that does not look whether the seat is taken
addPlayer_seatNotChecked(s, id, seatIndex) ==
    IF seatIndex < 0 \/ seatIndex > MaxSeatIndex THEN Rejected(s)
    ELSE IF \E i \in 1..Len(s.players) : s.players[i].id = id THEN Rejected(s)
    ELSE IF Len(s.players) >= MaxPlayers THEN Rejected(s)
    ELSE [s EXCEPT !.players = InsertBySeat(@, NewPlayer(id, seatIndex, BuyIn)),
                   !.startChips = [x \in DOMAIN @ \cup {id} |->
                                      IF x = id THEN BuyIn ELSE @[x]]]

addPlayer(s, id, seatIndex) ==
    IF seatIndex < 0 \/ seatIndex > MaxSeatIndex THEN Rejected(s)
    ELSE IF \E i \in 1..Len(s.players) : s.players[i].seatIndex = seatIndex
    THEN Rejected(s)
    ELSE IF \E i \in 1..Len(s.players) : s.players[i].id = id THEN Rejected(s)
    ELSE IF Len(s.players) >= MaxPlayers THEN Rejected(s)
    ELSE [s EXCEPT !.players = InsertBySeat(@, NewPlayer(id, seatIndex, BuyIn)),
                   !.startChips = [x \in DOMAIN @ \cup {id} |->
                                      IF x = id THEN BuyIn ELSE @[x]]]

removePlayer(s, id) ==
    LET idx == IndexOfId(s.players, id) IN
    IF idx = -1 THEN s
    ELSE IF s.handInProgress
    THEN LET s1 == [s EXCEPT !.players = UpdatePlayer(@, id,
                        LAMBDA p : [p EXCEPT !.hasFolded = TRUE,
                                             !.isConnected = FALSE])]
         IN IF ActiveId(s1) = id
            THEN [handleAction(s1, id, "fold", 0) EXCEPT !.result = TRUE]
            ELSE s1
    ELSE [s EXCEPT !.players = SelectSeq(@, LAMBDA p : p.id # id)]

setPlayerConnected(s, id, connected) ==
    [s EXCEPT !.players = UpdatePlayer(@, id,
                 LAMBDA p : [p EXCEPT !.isConnected = connected])]

\* the callback promptAction hands to setTimeout, for the player it captured
timerCallback(s, id) ==
    LET s0 == [s EXCEPT !.actionTimer = NoId] IN
    IF s0.handInProgress /\ ActiveId(s0) = id
    THEN [handleAction(s0, id, "fold", 0) EXCEPT !.result = TRUE]
    ELSE s0

----------------------------------------------------------------------------
(* Showdown *)

\* [...new Set(totals)].sort((a, b) => a - b): the distinct values, ascending
RECURSIVE SortedLevels(_)
SortedLevels(set) ==
    IF set = {} THEN <<>>
    ELSE LET m == CHOOSE x \in set : \A y \in set : x <= y
         IN <<m>> \o SortedLevels(set \ {m})

\* a faulty contribution that counts the chips of the lower levels again
Contribution_fromZero(p, level, prevLevel) == Min(p.totalBetThisRound, level)

\* what a bettor adds to the pot of a level
Contribution(p, level, prevLevel) == Min(p.totalBetThisRound, level) - prevLevel

\* the loop of calculatePots over the all-in levels from the i-th on

RECURSIVE LevelPots(_, _, _, _)
LevelPots(s, levels, i, prevLevel) ==
    IF i > Len(levels) THEN <<>>
    ELSE LET level == levels[i]
             bettors == SelectSeq(s.players, LAMBDA p : p.totalBetThisRound > 0)
             contribution(p) == Contribution(p, level, prevLevel)
             potAmount == SumSeq([k \in 1..Len(bettors) |->
                             IF contribution(bettors[k]) > 0
                             THEN contribution(bettors[k]) ELSE 0])
             eligible == SelectSeq(bettors,
                             LAMBDA p : ~p.hasFolded /\ p.totalBetThisRound >= level)
             here == IF potAmount > 0
                     THEN <<[amount |-> potAmount,
                             eligiblePlayerIds |->
                                 [k \in 1..Len(eligible) |-> eligible[k].id]]>>
                     ELSE <<>>
         IN here \o LevelPots(s, levels, i + 1, level)

calculatePots(s) ==
    LET activePlayers == NotFolded(s)
        idsOfActive == [k \in 1..Len(activePlayers) |-> activePlayers[k].id]
        allInPlayers == SelectSeq(activePlayers, LAMBDA p : p.isAllIn)
        levels == SortedLevels({allInPlayers[k].totalBetThisRound :
                                   k \in 1..Len(allInPlayers)})
        levelPots == LevelPots(s, levels, 1, 0)
        processedAmount == SumSeq([k \in 1..Len(levelPots) |-> levelPots[k].amount])
        prevLevel == levels[Len(levels)]
        remaining == s.pot - processedAmount
        rest == SelectSeq(activePlayers,
                    LAMBDA p : p.totalBetThisRound > prevLevel \/ ~p.isAllIn)
        withMain == IF remaining > 0
                    THEN Append(levelPots,
                                [amount |-> remaining,
                                 eligiblePlayerIds |->
                                     [k \in 1..Len(rest) |-> rest[k].id]])
                    ELSE levelPots
    IN IF Len(allInPlayers) = 0
       THEN <<[amount |-> s.pot, eligiblePlayerIds |-> idsOfActive]>>
       ELSE IF Len(withMain) = 0
       THEN <<[amount |-> s.pot, eligiblePlayerIds |-> idsOfActive]>>
       ELSE withMain

\* evaluations.sort((a, b) => compareHands(b.hand, a.hand)): best first, and
\* the sort is stable, so equal hands stay in seat order
RECURSIVE SortBestFirst(_, _, _)
SortBestFirst(evaluations, strength, r) ==
    IF r < 1 THEN <<>>
    ELSE SelectSeq(evaluations, LAMBDA p : strength[p.id] = r)
         \o SortBestFirst(evaluations, strength, r - 1)

\* What the evaluator can make of the deal: a strength for each player still
\* in, higher is better and equal is a tie.  A player without hole cards
\* plays the five community cards alone, which every other player's seven
\* cards contain, so no hand is weaker than theirs.
Strengths(s) ==
    LET in == NotFolded(s)
        ids == IdsOf(in)
        boardOnly == {in[k].id : k \in {j \in 1..Len(in) : in[j].holeCards = <<>>}}
    IN {f \in [ids -> 1..MaxStrength] :
           \A b \in boardOnly : \A q \in ids : f[b] <= f[q]}

\* the body of showdown's loop for pot potIdx (0-based); acc carries the
\* players, handResults and results
ShowdownPot(s, acc, thePots, potIdx, strength) ==
    LET thePot == thePots[potIdx + 1]
        notFolded == NotFolded(s)
        eligible == SelectSeq(notFolded,
                        LAMBDA p : \E k \in 1..Len(thePot.eligiblePlayerIds) :
                                       thePot.eligiblePlayerIds[k] = p.id)
        evaluations == SortBestFirst(
                           SelectSeq(eligible,
                               LAMBDA p : Len(p.holeCards) + Len(s.communityCards) >= 5),
                           strength, MaxStrength)
        bestHand == strength[evaluations[1].id]
        \* winners, the evaluations that tie with the best hand
        potWinners == SelectSeq(evaluations, LAMBDA p : strength[p.id] = bestHand)
        share == thePot.amount \div Len(potWinners)
        remainder == thePot.amount - share * Len(potWinners)
        winAmount(i) == share + (IF i = 1 THEN remainder ELSE 0)
        WinOf(id) == IF \E i \in 1..Len(potWinners) : potWinners[i].id = id
                     THEN winAmount(CHOOSE i \in 1..Len(potWinners) : potWinners[i].id = id)
                     ELSE 0
        handResults == acc.handResults \o
                       [i \in 1..Len(potWinners) |->
                           [playerId |-> potWinners[i].id, amount |-> winAmount(i),
                            potIndex |-> potIdx]]
        Listed(id) == \E k \in 1..Len(acc.results) : acc.results[k].playerId = id
        FirstWin(id) ==
            LET k == FindIndex(handResults, LAMBDA h : h.playerId = id)
            IN IF k >= 0 THEN handResults[k + 1].amount ELSE 0
        fresh == SelectSeq(evaluations, LAMBDA p : ~Listed(p.id))
    IN IF Len(evaluations) = 0 THEN acc
       ELSE [players |-> [i \in 1..Len(acc.players) |->
                            [acc.players[i] EXCEPT
                                !.chips = @ + WinOf(acc.players[i].id)]],
             handResults |-> handResults,
             results |-> acc.results \o
                         [k \in 1..Len(fresh) |->
                             [playerId |-> fresh[k].id,
                              cards |-> fresh[k].holeCards, shown |-> TRUE,
                              winAmount |-> FirstWin(fresh[k].id)]]]

RECURSIVE ShowdownLoop(_, _, _, _, _)
ShowdownLoop(s, acc, thePots, potIdx, strength) ==
    IF potIdx >= Len(thePots) THEN acc
    ELSE ShowdownLoop(s, ShowdownPot(s, acc, thePots, potIdx, strength),
                      thePots, potIdx + 1, strength)

showdown(s, strength) ==
    LET thePots == calculatePots(s)
        acc == ShowdownLoop(s, [players |-> s.players, handResults |-> <<>>,
                                results |-> <<>>],
                            thePots, 0, strength)
        s1 == [s EXCEPT !.players = acc.players, !.pots = thePots,
                        !.winners = acc.handResults,
                        !.atShowdown = s.players, !.showdownPending = FALSE]
    IN endHand(Emit(s1, [Event("showdown", NoId, NoAction, 0, s.pot)
                            EXCEPT !.results = acc.results]))

----------------------------------------------------------------------------
(* The state machine *)

\* how a handler that reached showdown() ends, for every deal of the deck
Outcomes(s) ==
    IF s.showdownPending THEN {showdown(s, f) : f \in Strengths(s)} ELSE {s}

RosterOps == {"addPlayer", "removePlayer", "setPlayerConnected"}

Commit(s, op) ==
    /\ players' = s.players
    /\ dealerSeatIndex' = s.dealerSeatIndex
    /\ handInProgress' = s.handInProgress
    /\ bettingRound' = s.bettingRound
    /\ communityCards' = s.communityCards
    /\ pot' = s.pot
    /\ currentBet' = s.currentBet
    /\ minRaise' = s.minRaise
    /\ lastRaiseAmount' = s.lastRaiseAmount
    /\ activePlayerIndex' = s.activePlayerIndex
    /\ handNumber' = s.handNumber
    /\ actionTimer' = s.actionTimer
    /\ deckCursor' = s.deckCursor
    /\ winners' = s.winners
    /\ events' = s.events
    /\ pots' = s.pots
    /\ atShowdown' = s.atShowdown
    /\ startChips' = s.startChips
    /\ ret' = [op |-> op, result |-> s.result]
    /\ rosterCalls' = IF op \in RosterOps /\ s.players # players
                      THEN rosterCalls + 1 ELSE rosterCalls
    /\ UNCHANGED <<handCards, handBest>>

\* A table between hands, after one hand was played: A, B and C hold seats
\* 0, 2 and 4 with the stacks of one of the tables, and the button is on
\* the seat where that hand left it.  Every positive stack is reachable from
\* the buy-in: a player loses chips in a hand to a player who then leaves.
InitAt(tables, dealerSeat) ==
    /\ \E stacks \in tables :
           players = [i \in 1..Len(stacks) |->
                         NewPlayer(SeatedIds[i], 2 * (i - 1), stacks[i])]
    /\ dealerSeatIndex = dealerSeat
    /\ handInProgress = FALSE
    /\ bettingRound = "preflop"
    /\ communityCards = <<>>
    /\ pot = 0
    /\ currentBet = 0
    /\ minRaise = BigBlind
    /\ lastRaiseAmount = BigBlind
    /\ activePlayerIndex = -1
    /\ handNumber = 1
    /\ actionTimer = NoId
    /\ deckCursor = 0
    /\ winners = <<>>
    /\ events = <<>>
    /\ ret = [op |-> "constructor", result |-> TRUE]
    /\ pots = <<>>
    /\ atShowdown = <<>>
    /\ startChips = <<>>
    /\ rosterCalls = 0
    /\ handCards = <<>>
    /\ handBest = NoHand

\* the button was on seat 4
Init == InitAt(Tables, 4)

StartHand ==
    /\ handNumber < MaxHands
    /\ \E s \in Outcomes(startHand(Engine)) : Commit(s, "startHand")

HandleAction(id, action, amount) ==
    \E s \in Outcomes(handleAction(Engine, id, action, amount)) :
        Commit(s, "handleAction")

Timeout ==
    /\ actionTimer # NoId
    /\ \E s \in Outcomes(timerCallback(Engine, actionTimer)) : Commit(s, "timeout")

RemovePlayer(id) ==
    /\ rosterCalls < MaxRosterCalls
    /\ \E s \in Outcomes(removePlayer(Engine, id)) : Commit(s, "removePlayer")

AddPlayer(id, seatIndex) ==
    /\ rosterCalls < MaxRosterCalls
    /\ Commit(addPlayer(Engine, id, seatIndex), "addPlayer")

SetPlayerConnected(id, connected) ==
    /\ rosterCalls < MaxRosterCalls
    /\ Commit(setPlayerConnected(Engine, id, connected), "setPlayerConnected")

Next ==
    \/ StartHand
    \/ \E id \in Ids, action \in Actions \ {"raise"} : HandleAction(id, action, 0)
    \/ \E id \in Ids, amount \in Amounts : HandleAction(id, "raise", amount)
    \/ Timeout
    \/ handInProgress /\ \E id \in Ids : RemovePlayer(id)
    \/ handInProgress /\ \E id \in Ids, seatIndex \in JoinSeats : AddPlayer(id, seatIndex)
    \/ handInProgress /\ \E id \in Ids, connected \in BOOLEAN :
           SetPlayerConnected(id, connected)

Spec == Init /\ [][Next]_vars

\* The same engine from a table where the button was on seat 0, so that the
\* hand is dealt with the button on seat 2, a seat with a player on either
\* side in seat order, and with stacks that last beyond the flop.
ButtonTables == {<<3, 2, 3>>}
ButtonInit == InitAt(ButtonTables, 0)
ButtonSpec == ButtonInit /\ [][Next]_vars

----------------------------------------------------------------------------
(* Quantities the claims speak of *)

RECURSIVE SumOver(_, _)
SumOver(f, set) ==
    IF set = {} THEN 0
    ELSE LET x == CHOOSE x \in set : TRUE IN f[x] + SumOver(f, set \ {x})

ChipsHeld == SumSeq([i \in 1..Len(players) |-> players[i].chips])
ChipsBrought == SumOver(startChips, DOMAIN startChips)
PotAmounts == SumSeq([k \in 1..Len(pots) |-> pots[k].amount])
Eligible(k) == {pots[k].eligiblePlayerIds[i] : i \in 1..Len(pots[k].eligiblePlayerIds)}
StillIn == {i \in 1..Len(players) : ~players[i].hasFolded}
HandPlayed == DOMAIN startChips # {}
Emitted(type, id) ==
    \E i \in 1..Len(events) : events[i].type = type /\ events[i].playerId = id
MaxBetOf(set) ==
    IF set = {} THEN 0
    ELSE LET i == CHOOSE i \in set : \A j \in set : players[j].currentBet <= players[i].currentBet
         IN players[i].currentBet

----------------------------------------------------------------------------
(* C1 *)

\* C1: chip conservation.  Once a hand has ended, the players hold together
\* exactly the chips they brought to it: every chip put in the pot has been
\* paid out to some player.  (A player purged at the end of the hand holds
\* no chips.)
C1_ChipConservation ==
    (~handInProgress /\ HandPlayed) => ChipsHeld = ChipsBrought

----------------------------------------------------------------------------
(* C2 *)

\* C2: at every showdown the amounts of the pots calculatePots returned sum
\* to state.pot, and state.pot is the sum of the contributions
\* (totalBetThisRound) of all players, folded ones included.
C2_PotsSumToPot ==
    pots # <<>> =>
        /\ PotAmounts = pot
        /\ pot = SumSeq([i \in 1..Len(atShowdown) |-> atShowdown[i].totalBetThisRound])

\* a showdown that split the pot over at least two all-in levels, with a
\* folded player's chips in it
C2_Witness ==
    /\ Len(pots) >= 2
    /\ \E i \in 1..Len(atShowdown) :
           atShowdown[i].hasFolded /\ atShowdown[i].totalBetThisRound > 0

----------------------------------------------------------------------------
(* C3 *)

\* C3: at every showdown each pot with a non-zero amount has at least one
\* eligible player, and along the pot list each pot's eligible players are
\* among the previous pot's.
C3_EligibilityShape ==
    /\ \A k \in 1..Len(pots) : pots[k].amount # 0 => Eligible(k) # {}
    /\ \A k \in 2..Len(pots) : Eligible(k) \subseteq Eligible(k - 1)

----------------------------------------------------------------------------
(* C4 *)

\* C4: while a hand is in progress state.pot is the sum, over the players, of
\* the chips each brought to the hand minus the chips each holds now.
C4_PotIsChipsCommitted ==
    handInProgress => pot = ChipsBrought - ChipsHeld

\* a hand in progress in which blinds were posted and a player has called
\* and another has gone all-in
C4_Witness ==
    /\ handInProgress
    /\ pot > SmallBlind + BigBlind
    /\ \E i \in 1..Len(players) : players[i].lastAction = "call"
    /\ \E i \in 1..Len(players) : players[i].lastAction = "all-in"

----------------------------------------------------------------------------
(* C5 *)

\* C5 as claimed: in a hand in progress, currentBet is at least the highest
\* currentBet of a player still in, and equals it unless no player has bet
\* in the round.
C5_CurrentBetIsMax ==
    handInProgress =>
        /\ currentBet >= MaxBetOf(StillIn)
        /\ (\E i \in 1..Len(players) : players[i].currentBet > 0)
               => currentBet = MaxBetOf(StillIn)

\* C5 as amended: in a hand in progress, currentBet is at least the highest
\* currentBet of a player still in, and it equals the highest currentBet of
\* any player, folded or not, or the big blind if that is larger and the
\* round is preflop.
C5_CurrentBetBound ==
    handInProgress =>
        /\ currentBet >= MaxBetOf(StillIn)
        /\ LET all == MaxBetOf(1..Len(players))
               floor == IF bettingRound = "preflop" THEN BigBlind ELSE 0
           IN currentBet = IF all > floor THEN all ELSE floor

\* the highest bettor, who had raised, was folded by removePlayer while
\* another player was on action
C5_Witness ==
    /\ handInProgress
    /\ currentBet > MaxBetOf(StillIn)
    /\ ret.op = "removePlayer"
    /\ \E i \in 1..Len(players) :
           players[i].hasFolded /\ players[i].currentBet = currentBet
                                /\ currentBet > BigBlind

----------------------------------------------------------------------------
(* C6 *)

\* what the active player's raise or all-in would put over the table's bet
RaiseOverOf(action, amount) ==
    LET p == getActivePlayer(Engine)
    IN p.currentBet + RaiseAmount(p, action, amount) - currentBet

C6_MinRaiseStep ==
    (bettingRound' = bettingRound /\ handNumber' = handNumber
        /\ minRaise' # minRaise)
    => \E action \in {"raise", "all-in"}, amount \in Amounts :
           /\ HasActivePlayer(Engine)
           /\ HandleAction(ActiveId(Engine), action, amount)
           /\ ret'.result
           /\ RaiseOverOf(action, amount) >= minRaise
           /\ minRaise' = RaiseOverOf(action, amount)

\* C6: minRaise is at least the big blind in every state, and a step that
\* changes it within a betting round is an accepted raise or all-in of the
\* active player whose raise_over is at least minRaise, and makes it that
\* raise_over; no other call changes it within a round.
C6_MinRaise == [](minRaise >= BigBlind) /\ [][C6_MinRaiseStep]_vars

\* a full raise has moved minRaise above the big blind, and a short all-in
\* after it was accepted and left it there
C6_Witness ==
    /\ minRaise > BigBlind
    /\ ret = [op |-> "handleAction", result |-> TRUE]
    /\ \E i \in 1..Len(events) :
           /\ events[i].type = "player_acted" /\ events[i].action = "all-in"
           /\ events[i].amount = currentBet
           /\ \E j \in 1..Len(players) :
                  /\ players[j].id # events[i].playerId
                  /\ players[j].currentBet > 0
                  /\ currentBet - players[j].currentBet > 0
                  /\ currentBet - players[j].currentBet < minRaise
                  /\ players[j].lastAction \in {"raise", "all-in"}

----------------------------------------------------------------------------
(* C7 *)

\* C7: no state with a hand in progress has fewer than two players who
\* have not folded (when all but one have folded the pot is awarded and the
\* hand ends in the same step).
C7_SingleWinner == handInProgress => Cardinality(StillIn) >= 2

----------------------------------------------------------------------------
(* C8 *)

\* the illegal actions the claim lists, for the player on action
IllegalAction(action, amount) ==
    LET p == getActivePlayer(Engine)
        toCall == currentBet - p.currentBet
    IN \/ action = "check" /\ toCall > 0
       \/ /\ action = "raise"
          /\ RaiseAmount(p, action, amount) < currentBet + minRaise - p.currentBet
          /\ RaiseAmount(p, action, amount) < p.chips
       \/ action = "bogus"

C8_IllegalActionStep ==
    \A action \in Actions, amount \in Amounts :
        (/\ HasActivePlayer(Engine)
         /\ IllegalAction(action, amount)
         /\ HandleAction(ActiveId(Engine), action, amount))
        => (~ret'.result /\ UNCHANGED engineVars)

\* C8: an illegal action of the player on action returns false and leaves
\* the engine state unchanged, the pending auto-fold timeout included.
C8_IllegalActionNoEffect == [][C8_IllegalActionStep]_vars

----------------------------------------------------------------------------
(* C9 *)

\* C9: in every state, handleAction with an id that is not the active
\* player's (an unknown id, a seated player not on action, any id between
\* hands) returns false, emits no event and changes nothing of the engine
\* state, the active player's pending timeout included.
C9_NotActiveNoEffect ==
    \A id \in Ids, action \in Actions, amount \in Amounts :
        id # ActiveId(Engine)
        => LET s == handleAction(Engine, id, action, amount)
           IN /\ ~s.result
              /\ s.events = <<>>
              /\ s.actionTimer = actionTimer
              /\ s = [Engine EXCEPT !.result = FALSE]

\* a call was rejected during a hand while the active player's timeout is
\* still pending
C9_Witness ==
    /\ handInProgress
    /\ ret = [op |-> "handleAction", result |-> FALSE]
    /\ actionTimer # NoId
    /\ actionTimer = ActiveId(Engine)

----------------------------------------------------------------------------
(* C10 *)

\* The timer promptAction sets fires after 30 seconds unless it is cleared:
\* a timeout that stays pending is eventually delivered.
FairSpec == Init /\ [][Next]_vars /\ WF_vars(Timeout)

\* C10: every action_on for a player is eventually followed by a
\* player_acted for that player.
C10_ActionOnAnswered ==
    \A id \in Ids : Emitted("action_on", id) ~> Emitted("player_acted", id)

\* C10, as a property of the states: without a call from outside, an
\* action_on is answered only by the timer promptAction arms, so every
\* action_on is followed by a player_acted for the same player, whatever
\* calls are made or not made, only if the timer stays pending for the
\* player on action until that player has acted: in a hand in progress with
\* a player on action, actionTimer names that player.
C10_TimerPending ==
    (handInProgress /\ ActiveId(Engine) # NoId) => actionTimer = ActiveId(Engine)

----------------------------------------------------------------------------
(* C11 *)

CountOf(type) == Cardinality({i \in 1..Len(events) : events[i].type = type})

\* C11: the events one call emits follow the order of a hand.  hand_start
\* comes first and is followed by the hole_cards events; hand_end is the
\* last event of the call that ends the hand and exactly one showdown
\* precedes it; a showdown is followed by hand_end; a call that leaves no
\* hand in progress emits nothing after hand_end (nothing at all when no
\* hand was in progress before it).
C11_EventOrder ==
    /\ \A i \in 1..Len(events) :
           /\ events[i].type = "hand_start" => i = 1
           /\ events[i].type = "hole_cards" =>
                  i > 1 /\ events[i - 1].type \in {"hand_start", "hole_cards"}
           /\ events[i].type = "hand_end" =>
                  /\ i = Len(events)
                  /\ CountOf("showdown") = 1
                  /\ i > 1 /\ events[i - 1].type = "showdown"
           /\ events[i].type = "showdown" =>
                  i < Len(events) /\ events[i + 1].type = "hand_end"
    /\ (~handInProgress /\ events # <<>>) =>
           events[Len(events)].type = "hand_end"

----------------------------------------------------------------------------
(* C12 *)

\* C12: in every state with a player on action, a raise or all-in of that
\* player adding raiseAmount chips is accepted if and only if raise_over =
\* player.currentBet + raiseAmount - currentBet is at least minRaise or
\* raiseAmount is the player's whole stack.  An accepted all-in with
\* raise_over below minRaise leaves minRaise unchanged and makes currentBet
\* the new bet where the new bet is above it (an all-in for less than the
\* call leaves currentBet as it is), so that while the round goes on the
\* minimum raise total is the new currentBet plus the old minRaise.
C12_RaiseAccepted ==
    HasActivePlayer(Engine) =>
        \A action \in {"raise", "all-in"}, amount \in Amounts :
            LET player == getActivePlayer(Engine)
                raiseAmount == RaiseAmount(player, action, amount)
                newBet == player.currentBet + raiseAmount
                raiseOver == newBet - currentBet
                s == handleAction(Engine, player.id, action, amount)
            IN /\ s.result <=> (raiseOver >= minRaise \/ raiseAmount = player.chips)
               /\ (s.result /\ raiseAmount = player.chips /\ raiseOver < minRaise
                      /\ s.bettingRound = bettingRound)
                  => /\ s.minRaise = minRaise
                     /\ s.currentBet = IF newBet > currentBet THEN newBet ELSE currentBet
                     /\ raiseOver > 0 => s.currentBet + s.minRaise = newBet + minRaise

\* an all-in that raised by less than minRaise was accepted, minRaise is
\* above the big blind, and another player is now on action in the same
\* round
C12_Witness ==
    /\ handInProgress
    /\ actionTimer # NoId
    /\ minRaise > BigBlind
    /\ ret = [op |-> "handleAction", result |-> TRUE]
    /\ \E i \in 1..Len(events) :
           /\ events[i].type = "player_acted" /\ events[i].action = "all-in"
           /\ events[i].amount = currentBet
           /\ \E j \in 1..Len(players) :
                  /\ players[j].id # events[i].playerId
                  /\ players[j].lastAction \in {"raise", "all-in"}
                  /\ currentBet - players[j].currentBet \in 1..(minRaise - 1)
           /\ \E k \in (i + 1)..Len(events) : events[k].type = "action_on"

----------------------------------------------------------------------------
(* C13 *)

\* the entries of a validActions list for one action
Offers(validActions, action) ==
    {k \in 1..Len(validActions) : validActions[k].action = action}

\* C13: the validActions of every action_on, for the player it names with
\* to_call = currentBet - player.currentBet: fold is always there; check is
\* there iff to_call = 0; call iff to_call > 0, with minAmount = maxAmount =
\* min(to_call, chips); raise iff chips > to_call, with minAmount =
\* min(currentBet + minRaise - player.currentBet, chips) and maxAmount =
\* chips.  No action is listed twice.
C13_ValidActions ==
    \A i \in 1..Len(events) :
        events[i].type = "action_on" =>
            LET va == events[i].validActions
                p == players[IndexOfId(players, events[i].playerId) + 1]
                toCall == currentBet - p.currentBet
            IN /\ \A a \in {"fold", "check", "call", "raise"} :
                      Cardinality(Offers(va, a)) <= 1
               /\ \A k \in 1..Len(va) : va[k].action \in {"fold", "check", "call", "raise"}
               /\ Offers(va, "fold") # {}
               /\ Offers(va, "check") # {} <=> toCall = 0
               /\ Offers(va, "call") # {} <=> toCall > 0
               /\ \A k \in Offers(va, "call") :
                      /\ va[k].minAmount = Min(toCall, p.chips)
                      /\ va[k].maxAmount = Min(toCall, p.chips)
               /\ Offers(va, "raise") # {} <=> p.chips > toCall
               /\ \A k \in Offers(va, "raise") :
                      /\ va[k].minAmount = Min(currentBet + minRaise - p.currentBet, p.chips)
                      /\ va[k].maxAmount = p.chips

\* a player was put on action who cannot cover the call: call is offered for
\* the whole stack, below to_call, and raise is not offered
C13_Witness ==
    \E i \in 1..Len(events) :
        /\ events[i].type = "action_on"
        /\ LET va == events[i].validActions
               p == players[IndexOfId(players, events[i].playerId) + 1]
           IN /\ Offers(va, "raise") = {}
              /\ \E k \in Offers(va, "call") :
                     va[k].minAmount = p.chips /\ p.chips < currentBet - p.currentBet

----------------------------------------------------------------------------
(* C14 *)

\* the entries of state.winners for the pot with this index (0-based)
WinnersOf(potIdx) == {i \in 1..Len(winners) : winners[i].potIndex = potIdx}

\* the seat a player held at the showdown
SeatAtShowdown(id) == atShowdown[IndexOfId(atShowdown, id) + 1].seatIndex

\* how many seats after the dealer's a seat is, going round the table; the
\* dealer's own seat is the last
SeatsAfterDealer(seat) ==
    (seat - dealerSeatIndex - 1 + 2 * (MaxSeatIndex + 1)) % (MaxSeatIndex + 1)

\* C14: at a showdown, a pot won by several tied players pays each of them
\* floor(amount / winners), and the remainder goes to the tied winner whose
\* seat comes first after the dealer's seat.
C14_RemainderLeftOfDealer ==
    pots # <<>> =>
        \A k \in 1..Len(pots) :
            LET W == WinnersOf(k - 1)
                n == Cardinality(W)
                share == pots[k].amount \div n
                remainder == pots[k].amount % n
                first == CHOOSE i \in W : \A j \in W :
                             SeatsAfterDealer(SeatAtShowdown(winners[i].playerId))
                             <= SeatsAfterDealer(SeatAtShowdown(winners[j].playerId))
            IN n >= 2 =>
                   \A i \in W :
                       winners[i].amount = share + (IF i = first THEN remainder ELSE 0)

----------------------------------------------------------------------------
(* C15 *)

\* the chips the end of the hand added to a player's stack, over all pots
PaidTo(id) ==
    SumSeq([i \in 1..Len(winners) |->
               IF winners[i].playerId = id THEN winners[i].amount ELSE 0])

\* C15: in every showdown event, the winAmount of each listed player is the
\* number of chips the showdown added to that player's stack over all pots
\* (0 for a player who won nothing), and the winAmounts of the event sum to
\* the chips paid out.
C15_WinAmounts ==
    \A i \in 1..Len(events) :
        events[i].type = "showdown" =>
            LET results == events[i].results
            IN /\ \A k \in 1..Len(results) :
                      results[k].winAmount = PaidTo(results[k].playerId)
               /\ SumSeq([k \in 1..Len(results) |-> results[k].winAmount])
                      = SumSeq([k \in 1..Len(winners) |-> winners[k].amount])

----------------------------------------------------------------------------
(* C16 *)

\* the player of s seated k active seats after the dealer (k = 0: the dealer)
AfterDealer(s, k) ==
    LET dealerIdx == FindIndex(s.players, LAMBDA p : p.seatIndex = s.dealerSeatIndex)
    IN s.players[((dealerIdx + k) % Len(s.players)) + 1]

\* C16: wherever a hand can start, startHand's blinds are these.  With two
\* active players the dealer posts the small blind and the other player the
\* big blind; with three or more the first active seat after the dealer
\* posts the small blind and the next one the big blind.  Each blind takes
\* min(blind, chips) from the player, a player left with no chips is
\* all-in, nobody else has bet, and currentBet and minRaise are the big
\* blind.
C16_Blinds ==
    canStartHand(Engine) =>
        LET s == startHandBlinds(Engine)
            n == Len(s.players)
            sb == IF n = 2 THEN AfterDealer(s, 0) ELSE AfterDealer(s, 1)
            bb == IF n = 2 THEN AfterDealer(s, 1) ELSE AfterDealer(s, 2)
            Before(id) == players[IndexOfId(players, id) + 1].chips
            Posted(p, blind) ==
                /\ p.currentBet = Min(blind, Before(p.id))
                /\ p.totalBetThisRound = p.currentBet
                /\ p.chips = Before(p.id) - p.currentBet
                /\ p.isAllIn <=> p.chips = 0
        IN /\ n >= 2
           /\ getActivePlayers(s) = s.players
           /\ \E i \in 1..n : s.players[i].seatIndex = s.dealerSeatIndex
           /\ sb.id # bb.id
           /\ Posted(sb, SmallBlind)
           /\ Posted(bb, BigBlind)
           /\ \A i \in 1..n :
                  s.players[i].id \notin {sb.id, bb.id} =>
                      /\ s.players[i].currentBet = 0
                      /\ s.players[i].chips = Before(s.players[i].id)
                      /\ ~s.players[i].isAllIn
           /\ s.pot = sb.currentBet + bb.currentBet
           /\ s.currentBet = BigBlind
           /\ s.minRaise = BigBlind

\* startHand has just dealt a heads-up hand: the dealer holds the small
\* blind and the other player the big blind
C16_Witness ==
    /\ ret.op = "startHand"
    /\ handInProgress
    /\ Len(players) = 2
    /\ AfterDealer(Engine, 0).currentBet = SmallBlind
    /\ AfterDealer(Engine, 1).currentBet = BigBlind

----------------------------------------------------------------------------
(* C17 *)

\* how many seats after the seat from a seat is, going round the table; from
\* itself is the last
SeatsAfter(seat, from) ==
    (seat - from - 1 + 2 * (MaxSeatIndex + 1)) % (MaxSeatIndex + 1)

\* the players who have not folded and are not all-in
AbleToAct == {i \in 1..Len(players) : ~players[i].hasFolded /\ ~players[i].isAllIn}

\* the first of them in seat order after the seat from
FirstAbleAfter(from) ==
    players[CHOOSE i \in AbleToAct : \A j \in AbleToAct :
                SeatsAfter(players[i].seatIndex, from)
                <= SeatsAfter(players[j].seatIndex, from)].id

\* C17: the first action_on of a betting round names this player.  Preflop
\* (the action_on that follows the hole cards): with two players the dealer,
\* with three or more the first player able to act from the seat after the
\* big blind's on.  After the flop (the action_on that follows pot_update):
\* the first player who has not folded and is not all-in, in seat order
\* after the dealer's seat.
C17_FirstActor ==
    \A i \in 2..Len(events) :
        events[i].type = "action_on" =>
            /\ events[i - 1].type = "hole_cards" =>
                   events[i].playerId =
                       IF Len(players) = 2 THEN AfterDealer(Engine, 0).id
                       ELSE FirstAbleAfter(AfterDealer(Engine, 2).seatIndex)
            /\ events[i - 1].type = "pot_update" =>
                   events[i].playerId = FirstAbleAfter(dealerSeatIndex)

----------------------------------------------------------------------------
(* C18 *)

\* C18: wherever a hand can start, startHand puts the button here.  With no
\* dealer yet (dealerSeatIndex = -1) on the lowest-indexed active seat;
\* otherwise on the first active seat in seat order after the previous
\* dealer's seat, going round the table, whether or not the previous dealer
\* is still at the table.
C18_DealerAdvance ==
    canStartHand(Engine) =>
        LET r == startHandReset(Engine)
            active == getActivePlayers(r)
            s == advanceDealer(r)
            next == CHOOSE i \in 1..Len(active) : \A j \in 1..Len(active) :
                        SeatsAfter(active[i].seatIndex, dealerSeatIndex)
                        <= SeatsAfter(active[j].seatIndex, dealerSeatIndex)
        IN s.dealerSeatIndex = IF dealerSeatIndex = -1 THEN active[1].seatIndex
                               ELSE active[next].seatIndex

----------------------------------------------------------------------------
(* C19 *)

\* C19: while a hand is in progress, a call of addPlayer or removePlayer
\* leaves the set of players in the roster as it was.
C19_RosterFixedInHand ==
    [][(handInProgress /\ ret'.op \in {"addPlayer", "removePlayer"})
          => IdsOf(players') = IdsOf(players)]_vars

----------------------------------------------------------------------------
(* C20 *)

\* the players other than players[a] who have not folded
OthersIn(a) == {i \in 1..Len(players) : i # a /\ ~players[i].hasFolded}

\* those of them who still have to act in this betting round
Owing(a) ==
    {i \in OthersIn(a) :
        /\ ~players[i].isAllIn
        /\ \/ players[i].currentBet < currentBet
           \/ bettingRound = "preflop" /\ players[i].lastAction = NoAction}

\* the first of them in seat order after players[a]
NextOwing(a) ==
    CHOOSE i \in Owing(a) : \A j \in Owing(a) :
        SeatsAfter(players[i].seatIndex, players[a].seatIndex)
        <= SeatsAfter(players[j].seatIndex, players[a].seatIndex)

\* C20: wherever a player who has not folded is on action in a hand,
\* removePlayer of that player folds them, emits their fold as player_acted
\* and leaves no timer running for them.  If one other player has not
\* folded, the hand ends with the pot added to that player's chips and no
\* hands compared; otherwise the action is on the first player in seat
\* order after the removed one who still has to act, or, with none, the
\* betting round is over.
C20_RemoveOnAction ==
    (handInProgress /\ HasActivePlayer(Engine)
       /\ ~getActivePlayer(Engine).hasFolded /\ OthersIn(activePlayerIndex + 1) # {}) =>
        LET a == activePlayerIndex + 1
            id == players[a].id
            s == removePlayer(Engine, id)
        IN /\ \A k \in 1..Len(s.players) : s.players[k].id = id => s.players[k].hasFolded
           /\ \E k \in 1..Len(s.events) :
                  /\ s.events[k].type = "player_acted"
                  /\ s.events[k].playerId = id
                  /\ s.events[k].action = "fold"
           /\ s.actionTimer # id
           /\ IF Cardinality(OthersIn(a)) = 1
              THEN LET w == CHOOSE i \in OthersIn(a) : TRUE
                   IN /\ ~s.handInProgress
                      /\ \E k \in 1..Len(s.players) :
                             /\ s.players[k].id = players[w].id
                             /\ s.players[k].chips = players[w].chips + pot
                      /\ ~s.showdownPending
              ELSE IF Owing(a) # {}
              THEN /\ s.handInProgress
                   /\ ActiveId(s) = players[NextOwing(a)].id
              ELSE s.showdownPending \/ s.bettingRound # bettingRound

----------------------------------------------------------------------------
(* C21 *)

\* The ids and seats addPlayer is called with where the roster is built
\* from the empty table: seven ids for six seats, and every seat from one
\* below the range to one above it.
RosterIds == {"A", "B", "C", "D", "E", "F", "G"}
RosterSeats == -1..(MaxSeatIndex + 1)
\* the ids that take the seats 0, 1, ... of a roster built before the
\* model runs
RosterSeated == <<"A", "B", "C", "D", "E", "F">>
RosterSizes == {0, 2, 5, 6}
\* the actions the players of these tables answer with
RosterActions == {"fold", "check", "call"}

\* A new engine where addPlayer has seated the first n ids at seats 0..n-1
\* with the buy-in; no hand was played.
Constructed(n) ==
    /\ players = [i \in 1..n |-> NewPlayer(RosterSeated[i], i - 1, BuyIn)]
    /\ dealerSeatIndex = -1
    /\ handInProgress = FALSE
    /\ bettingRound = "preflop"
    /\ communityCards = <<>>
    /\ pot = 0
    /\ currentBet = 0
    /\ minRaise = BigBlind
    /\ lastRaiseAmount = BigBlind
    /\ activePlayerIndex = -1
    /\ handNumber = 0
    /\ actionTimer = NoId
    /\ deckCursor = 0
    /\ winners = <<>>
    /\ events = <<>>
    /\ ret = [op |-> "constructor", result |-> TRUE]
    /\ pots = <<>>
    /\ atShowdown = <<>>
    /\ startChips = <<>>
    /\ rosterCalls = 0

RosterInit ==
    /\ \E n \in RosterSizes : Constructed(n)
    /\ handCards = <<>>
    /\ handBest = NoHand

\* addPlayer and removePlayer are called at any time, between hands too;
\* one hand is played
RosterNext ==
    \/ handNumber = 0 /\ StartHand
    \/ \E id \in RosterIds, action \in RosterActions : HandleAction(id, action, 0)
    \/ Timeout
    \/ \E id \in RosterIds : RemovePlayer(id)
    \/ \E id \in RosterIds, seatIndex \in RosterSeats : AddPlayer(id, seatIndex)

RosterSpec == RosterInit /\ [][RosterNext]_vars

\* the four reasons addPlayer gives for returning false
InvalidSeat(seatIndex) == seatIndex < 0 \/ seatIndex > MaxSeatIndex
SeatTaken(seatIndex) == \E i \in 1..Len(players) : players[i].seatIndex = seatIndex
DuplicateId(id) == \E i \in 1..Len(players) : players[i].id = id
RosterFull == Len(players) >= MaxPlayers

\* C21: in every reachable state the seats of the roster are pairwise
\* different and lie in 0..5, the ids are pairwise different and there are
\* at most six players; and addPlayer called there with a seat out of range,
\* a taken seat, an id already seated or a full roster returns false and
\* changes nothing.
C21_RosterShape ==
    /\ \A i, j \in 1..Len(players) :
           i # j => /\ players[i].seatIndex # players[j].seatIndex
                    /\ players[i].id # players[j].id
    /\ \A i \in 1..Len(players) : players[i].seatIndex \in 0..MaxSeatIndex
    /\ Len(players) <= MaxPlayers
    /\ \A id \in RosterIds, seatIndex \in RosterSeats :
           (InvalidSeat(seatIndex) \/ SeatTaken(seatIndex)
              \/ DuplicateId(id) \/ RosterFull)
           => addPlayer(Engine, id, seatIndex) = Rejected(Engine)

\* addPlayer has just been refused at a table with six players
C21_Witness ==
    /\ ret = [op |-> "addPlayer", result |-> FALSE]
    /\ Len(players) = MaxPlayers

----------------------------------------------------------------------------
(* C22 *)

\* the players a hand can start with
CanPlay == {i \in 1..Len(players) :
               players[i].isConnected /\ players[i].chips > 0
               /\ ~players[i].isSittingOut}

\* C22: in every reachable state canStartHand is true exactly when at least
\* two connected players with chips who are not sitting out exist and no
\* hand is in progress; startHand called where it is false returns the
\* engine as it was, with no event, so it starts no hand during a hand; and
\* called where it is true it starts a hand and adds one to handNumber.
C22_StartHandGuard ==
    /\ canStartHand(Engine) <=> (Cardinality(CanPlay) >= 2 /\ ~handInProgress)
    /\ ~canStartHand(Engine) => startHand(Engine) = Engine
    /\ handInProgress => startHand(Engine) = Engine
    /\ canStartHand(Engine) =>
           /\ startHand(Engine).handNumber = handNumber + 1
           /\ \E k \in 1..Len(startHand(Engine).events) :
                  startHand(Engine).events[k].type = "hand_start"

\* a hand was played and left a connected player without chips, and no
\* hand can start
C22_Witness ==
    /\ HandPlayed /\ ~handInProgress /\ handNumber = MaxHands
    /\ ~canStartHand(Engine)
    /\ \E i \in 1..Len(players) : players[i].isConnected /\ players[i].chips = 0

----------------------------------------------------------------------------
(* C23 *)

\* hasFolded, once true, is true after every step that starts no hand, for
\* as long as the player is in the roster
FoldedStays ==
    [][\A i \in 1..Len(players), j \in 1..Len(players') :
          (players[i].hasFolded /\ handNumber' = handNumber
             /\ players'[j].id = players[i].id)
          => players'[j].hasFolded]_vars

\* C23: in every reachable state every player has chips >= 0; during a hand
\* a player without chips who has put chips in is all-in, and an all-in
\* player has no chips; the player on action has not folded; and no player
\* who has folded is among the winners of a pot.
C23_PlayerInvariants ==
    /\ \A i \in 1..Len(players) : players[i].chips >= 0
    /\ handInProgress => \A i \in 1..Len(players) :
           /\ (players[i].chips = 0 /\ players[i].totalBetThisRound > 0)
                 => players[i].isAllIn
           /\ players[i].isAllIn => players[i].chips = 0
    /\ (handInProgress /\ HasActivePlayer(Engine))
           => ~getActivePlayer(Engine).hasFolded
    /\ \A k \in 1..Len(winners) : winners[k].amount > 0 =>
           \A i \in 1..Len(players) :
               players[i].id = winners[k].playerId => ~players[i].hasFolded

----------------------------------------------------------------------------
(* C24 *)

\* what crypto.getRandomValues can fill the Uint32Array with: the value
\* a * i + b at index i, for these a and b
RandomFactors == {0, 1, 7, 40503}
RandomOffsets == {0, 5, 2100000000}
RandomValues ==
    {[i \in 1..DeckSize |-> a * (i - 1) + b] :
        a \in RandomFactors, b \in RandomOffsets}

\* the decks new HandDeck() can hold
HandDecks == {shuffleDeck(createDeck, r) : r \in RandomValues}

\* every card of createDeck is in deck, once
IsPermutation(deck) ==
    /\ Len(deck) = Len(createDeck)
    /\ \A k \in 1..Len(createDeck) :
           Cardinality({i \in 1..Len(deck) : deck[i] = createDeck[k]}) = 1

\* the cards the players hold and the community cards, by position in the deck
RECURSIVE HoleCardsFrom(_)
HoleCardsFrom(i) ==
    IF i > Len(players) THEN <<>> ELSE players[i].holeCards \o HoleCardsFrom(i + 1)
CardsOut == HoleCardsFrom(1) \o communityCards

\* C24: the deck of a hand is a permutation of the 52 cards; the cursor
\* never passes the end of the deck; every card a player holds and every
\* community card was read below the cursor, each at a position of its own;
\* so, whatever the shuffle, the cards read so far (held, burned or on the
\* board) are pairwise different cards.
C24_NoCardTwice ==
    /\ \A deck \in HandDecks : IsPermutation(deck)
    /\ deckCursor \in 0..DeckSize
    /\ \A k \in 1..Len(CardsOut) : CardsOut[k] \in 0..(deckCursor - 1)
    /\ \A k, l \in 1..Len(CardsOut) : k # l => CardsOut[k] # CardsOut[l]
    /\ \A deck \in HandDecks : \A p, q \in 0..(deckCursor - 1) :
           p # q => deck[p + 1] # deck[q + 1]

\* the river is out with three players holding cards: three cards burned,
\* five on the board
C24_Witness ==
    /\ Len(communityCards) = 5
    /\ Cardinality({i \in 1..Len(players) : Len(players[i].holeCards) = 2}) = 3
    /\ deckCursor = 14

----------------------------------------------------------------------------
(* C25 *)

\* the events that go to every peer with the roster or the table in them
BroadcastTypes == {"hand_start", "hand_end", "action_on", "player_acted",
                   "pot_update", "community"}

CardsIn(seq) == {seq[k] : k \in 1..Len(seq)}

\* the ids of the players who hold card as a hole card, at the table now or
\* when the showdown read it
Holders(card) ==
    {players[i].id : i \in {j \in 1..Len(players) : card \in CardsIn(players[j].holeCards)}}
    \cup {atShowdown[i].id :
            i \in {j \in 1..Len(atShowdown) : card \in CardsIn(atShowdown[j].holeCards)}}

\* id had folded when the hand ended
FoldedAtEnd(id) ==
    \/ \E i \in 1..Len(players) : players[i].id = id /\ players[i].hasFolded
    \/ \E i \in 1..Len(atShowdown) : atShowdown[i].id = id /\ atShowdown[i].hasFolded

\* C25: of the events an operation emits, those that go to everybody carry
\* no card that a player holds and no holeCards field in their player
\* records; a hole_cards event carries cards of the player it names only;
\* and a showdown event shows, for each result, only cards of that result's
\* player, none for a player who has folded and none where the hand ended
\* with everybody else folded.
C25_HoleCardsPrivate ==
    \A k \in 1..Len(events) :
        LET e == events[k] IN
        /\ e.type \in BroadcastTypes =>
               /\ \A c \in CardsIn(e.cards) : Holders(c) = {}
               /\ \A i \in 1..Len(e.players) : "holeCards" \notin DOMAIN e.players[i]
        /\ e.type = "hole_cards" =>
               \A c \in CardsIn(e.cards) : Holders(c) = {e.playerId}
        /\ e.type = "showdown" =>
               \A r \in 1..Len(e.results) :
                   /\ \A c \in CardsIn(e.results[r].cards) :
                          Holders(c) = {e.results[r].playerId}
                   /\ FoldedAtEnd(e.results[r].playerId) => e.results[r].cards = <<>>
                   /\ ~e.results[r].shown => e.results[r].cards = <<>>

\* a showdown has shown the cards of two players while a third, who holds
\* cards, had folded
C25_Witness ==
    /\ \E k \in 1..Len(events) :
           /\ events[k].type = "showdown"
           /\ Cardinality({r \in 1..Len(events[k].results) :
                              Len(events[k].results[r].cards) = 2}) >= 2
    /\ \E i \in 1..Len(players) : players[i].hasFolded /\ Len(players[i].holeCards) = 2

----------------------------------------------------------------------------
(* C26 *)

\* The cards evaluateBestHand is called with: five to seven cards of one
\* of two parts of the deck, in the deck's order or the other way round.
\* The first part has the wheel, a straight flush, four of a kind and the
\* hands below them; the second has the royal flush.
WheelCards ==
    <<Card("A", "hearts"), Card("2", "hearts"), Card("3", "hearts"),
      Card("4", "hearts"), Card("5", "hearts"), Card("6", "hearts"),
      Card("5", "diamonds"), Card("5", "clubs"), Card("5", "spades"),
      Card("A", "diamonds"), Card("6", "diamonds")>>
BroadwayCards ==
    <<Card("A", "spades"), Card("K", "spades"), Card("Q", "spades"),
      Card("J", "spades"), Card("10", "spades"), Card("9", "spades"),
      Card("A", "clubs"), Card("K", "clubs"), Card("9", "clubs")>>
HandSizes == 5..7

Reverse(seq) == [i \in 1..Len(seq) |-> seq[Len(seq) + 1 - i]]

\* the subsequences of seq with k elements
SubSeqsOf(seq, k) ==
    {[i \in 1..k |-> seq[CHOOSE x \in S : Cardinality({y \in S : y < x}) = i - 1]] :
        S \in {T \in SUBSET (1..Len(seq)) : Cardinality(T) = k}}

\* two hole cards each of two players, and the board they share
HeroCards == <<Card("A", "spades"), Card("2", "spades")>>
VillainCards == <<Card("K", "spades"), Card("K", "diamonds")>>
BoardCards ==
    <<Card("3", "diamonds"), Card("4", "hearts"), Card("5", "clubs"),
      Card("9", "clubs"), Card("J", "hearts")>>

EvalInputs ==
    UNION {SubSeqsOf(part, k) \cup {Reverse(c) : c \in SubSeqsOf(part, k)} :
              part \in {WheelCards, BroadwayCards}, k \in HandSizes}
    \cup {HeroCards \o BoardCards, VillainCards \o BoardCards}

\* evaluateBestHand(handCards) is called and returns
EvaluateBestHand ==
    /\ handBest' = evaluateBestHand(handCards)
    /\ UNCHANGED <<players, dealerSeatIndex, handInProgress, bettingRound,
                   communityCards, pot, currentBet, minRaise, lastRaiseAmount,
                   activePlayerIndex, handNumber, actionTimer, deckCursor,
                   winners, events, ret, pots, atShowdown, startChips,
                   rosterCalls, handCards>>

\* a new engine, and the cards the evaluator is about to be called with
EvalInit ==
    /\ Constructed(0)
    /\ handCards \in EvalInputs
    /\ handBest = NoHand
EvalNext == EvaluateBestHand
EvalSpec == EvalInit /\ [][EvalNext]_vars

\* v is greater than w in lexicographic order
LexGreater(v, w) ==
    \E i \in 1..Min(Len(v), Len(w)) :
        /\ v[i] > w[i]
        /\ \A j \in 1..(i - 1) : v[j] = w[j]

\* hand a compares strictly greater than hand b: category first, then the
\* tiebreak vector
Beats(a, b) == a.rank > b.rank \/ (a.rank = b.rank /\ LexGreater(a.values, b.values))

\* C26: the hand evaluateBestHand returns for five to seven cards is made
\* of five different cards of the input, is what evaluateFiveCards makes of
\* those five, and no five cards of the input evaluate to a hand that
\* compares strictly greater.
C26_BestIsMaximal ==
    handBest # NoHand =>
        /\ Len(handBest.cards) = 5
        /\ Cardinality(CardsIn(handBest.cards)) = 5
        /\ CardsIn(handBest.cards) \subseteq CardsIn(handCards)
        /\ handBest = evaluateFiveCards(handBest.cards)
        /\ \A five \in SubSeqsOf(handCards, 5) :
               ~Beats(evaluateFiveCards(five), handBest)

\* seven cards were evaluated and the best hand is not made of the first
\* five of them
C26_Witness ==
    /\ Len(handCards) = 7
    /\ handBest.rank = FullHouse
    /\ CardsIn(handBest.cards) # CardsIn(SubSeq(handCards, 1, 5))

----------------------------------------------------------------------------
(* C27 *)

RanksOf(cards) == {cards[i].rank : i \in 1..Len(cards)}
Suited(cards) == \A i \in 1..Len(cards) : cards[i].suit = cards[1].suit
WheelRanks == {"A", "5", "4", "3", "2"}

\* hand is a five-high straight or straight flush
FiveHigh(hand) == hand.rank \in {Straight, StraightFlush} /\ hand.values = <<5>>

\* C27: of the five-card hands in the cards evaluated, one with the ranks
\* A, 5, 4, 3, 2 is a straight, or a straight flush if suited, with tiebreak
\* [5]; it loses to every straight of its category that is six-high or
\* higher and beats every hand of a lower category; and a hand with other
\* ranks is never five-high.  With the board 3, 4, 5, 9, J the hole cards
\* A-2 make the five-high straight and beat K-K, a pair of kings.
C27_Wheel ==
    /\ handBest # NoHand =>
           \A five \in SubSeqsOf(handCards, 5) :
               LET hand == evaluateFiveCards(five) IN
               /\ RanksOf(five) = WheelRanks =>
                      /\ hand.rank = IF Suited(five) THEN StraightFlush ELSE Straight
                      /\ hand.values = <<5>>
                      /\ \A other \in SubSeqsOf(handCards, 5) :
                             LET o == evaluateFiveCards(other) IN
                             /\ (o.rank = hand.rank /\ o.values[1] >= 6)
                                    => compareHands(hand, o) < 0
                             /\ o.rank < hand.rank => compareHands(hand, o) > 0
               /\ RanksOf(five) # WheelRanks => ~FiveHigh(hand)
    /\ (handBest # NoHand /\ handCards = HeroCards \o BoardCards) =>
           LET villain == evaluateBestHand(VillainCards \o BoardCards) IN
           /\ handBest.rank = Straight /\ handBest.values = <<5>>
           /\ villain.rank = OnePair /\ villain.values[1] = 13
           /\ compareHands(handBest, villain) > 0
           /\ compareHands(villain, handBest) < 0

\* the evaluator has returned the wheel for A-2 and the board
C27_Witness ==
    /\ handCards = HeroCards \o BoardCards
    /\ FiveHigh(handBest)
    /\ RanksOf(handBest.cards) = WheelRanks

\* the wheel and a six-high straight were both among the hands of the cards
\* evaluated
C27_WitnessSixHigh ==
    /\ handBest # NoHand
    /\ \E five, other \in SubSeqsOf(handCards, 5) :
           /\ RanksOf(five) = WheelRanks
           /\ evaluateFiveCards(other).rank = evaluateFiveCards(five).rank
           /\ evaluateFiveCards(other).values = <<6>>

----------------------------------------------------------------------------
(* C28 *)

\* the hands evaluateBestHand returns for the inputs, without their cards
EvalHands ==
    {[rank |-> h.rank, values |-> h.values] :
        h \in {evaluateBestHand(cards) : cards \in EvalInputs}}

Sign(n) == IF n > 0 THEN 1 ELSE IF n < 0 THEN -1 ELSE 0

\* C28: for the hand a the evaluator has returned and all hands b and c it
\* returns for five to seven cards, compareHands(a, b) and compareHands(b, a)
\* have opposite signs; a >= b and b >= c give a >= c, in both directions;
\* and a hand of a higher category compares greater whatever the tiebreak
\* values.
C28_TotalPreorder ==
    handBest # NoHand =>
        \A b \in EvalHands :
            /\ Sign(compareHands(handBest, b)) = -Sign(compareHands(b, handBest))
            /\ handBest.rank > b.rank => compareHands(handBest, b) > 0
            /\ handBest.rank < b.rank => compareHands(handBest, b) < 0
            /\ \A c \in EvalHands :
                   /\ (compareHands(handBest, b) >= 0 /\ compareHands(b, c) >= 0)
                          => compareHands(handBest, c) >= 0
                   /\ (compareHands(c, b) >= 0 /\ compareHands(b, handBest) >= 0)
                          => compareHands(c, handBest) >= 0

\* a straight was returned from seven cards, and the evaluator returns a
\* hand of a lower category with a higher first tiebreak value; its hands
\* are of all ten categories
C28_Witness ==
    /\ handBest.rank = Straight /\ Len(handCards) = 7
    /\ \E b \in EvalHands : b.rank < Straight /\ b.values[1] > handBest.values[1]
    /\ {b.rank : b \in EvalHands} = HighCard..RoyalFlush

----------------------------------------------------------------------------
(* C29 *)

\* A, B and C at seats 0, 2 and 4 with 100 chips each; the button was on
\* seat 4, so that the hand's dealer is A
WalkTables == {<<100, 100, 100>>}
WalkInit == InitAt(WalkTables, 4)
\* the players fold, check or call
WalkNext ==
    \/ StartHand
    \/ \E id \in Ids, action \in RosterActions : HandleAction(id, action, 0)
    \/ Timeout
WalkSpec == WalkInit /\ [][WalkNext]_vars

PlayerOf(id) == players[CHOOSE i \in 1..Len(players) : players[i].id = id]
\* the hand is over and nothing but the blinds went into the pot
BlindsOnly == HandPlayed /\ ~handInProgress /\ pot = SmallBlind + BigBlind
Folded(id) == PlayerOf(id).lastAction = "fold"

\* the hand of the scenario: the first hand started at the scenario's table,
\* where the button moves onto A
ScenarioHand == handNumber = 2
\* startHand has just started it: hand_start is the first event of the call
ScenarioStarted ==
    /\ ScenarioHand /\ ret.op = "startHand" /\ handInProgress
    /\ events # <<>> /\ events[1].type = "hand_start"

\* The blind walk as written: dealer A posts the small blind, B the big
\* blind, C is first on action; after C and A fold, B wins 3 and the chips
\* are A = 99, B = 101, C = 100.
C29_BlindWalkDealerPosts ==
    /\ ScenarioStarted =>
           /\ dealerSeatIndex = 0
           /\ PlayerOf("A").currentBet = SmallBlind
           /\ PlayerOf("B").currentBet = BigBlind
           /\ ActiveId(Engine) = "C"
    /\ (BlindsOnly /\ ScenarioHand /\ Folded("C") /\ Folded("A")) =>
           /\ winners = <<[playerId |-> "B", amount |-> 3, potIndex |-> 0]>>
           /\ PlayerOf("A").chips = 99
           /\ PlayerOf("B").chips = 101
           /\ PlayerOf("C").chips = 100

\* C29: in the hand of the scenario, with A, B and C at seats 0, 2 and 4,
\* 100 chips each and dealer A,
\* startHand makes B post the small blind 1 and C the big blind 2 and puts
\* A first on action; after A folds and B folds, C wins 3 and the final
\* chips are A = 100, B = 99, C = 101.
C29_BlindWalk ==
    /\ ScenarioStarted =>
           /\ dealerSeatIndex = 0
           /\ PlayerOf("A").currentBet = 0
           /\ PlayerOf("B").currentBet = SmallBlind
           /\ PlayerOf("C").currentBet = BigBlind
           /\ pot = SmallBlind + BigBlind
           /\ ActiveId(Engine) = "A"
    /\ (BlindsOnly /\ ScenarioHand /\ Folded("A") /\ Folded("B")) =>
           /\ winners = <<[playerId |-> "C", amount |-> 3, potIndex |-> 0]>>
           /\ PlayerOf("A").chips = 100
           /\ PlayerOf("B").chips = 99
           /\ PlayerOf("C").chips = 101

\* A and B have folded to the big blind
C29_Witness ==
    /\ BlindsOnly /\ Folded("A") /\ Folded("B")
    /\ ret = [op |-> "handleAction", result |-> TRUE]
    /\ PlayerOf("C").chips = 101

----------------------------------------------------------------------------
(* C30 *)

\* the contribution levels of the all-in players among ps, ascending
AllInLevels(ps) ==
    SortedLevels({ps[i].totalBetThisRound : i \in {j \in 1..Len(ps) : ps[j].isAllIn}})

\* the sum of the contributions of ps
Contributed(ps) == SumSeq([i \in 1..Len(ps) |-> ps[i].totalBetThisRound])

\* the pot of the i-th level: every contributor's chips between the previous
\* level and this one, for the players still in who reached this level
LevelPot(ps, levels, i) ==
    LET level == levels[i]
        prevLevel == IF i = 1 THEN 0 ELSE levels[i - 1]
        share(p) == Min(p.totalBetThisRound, level) - prevLevel
    IN [amount |-> SumSeq([k \in 1..Len(ps) |->
                        IF share(ps[k]) > 0 THEN share(ps[k]) ELSE 0]),
        eligible |-> {ps[k].id : k \in {j \in 1..Len(ps) :
                        ~ps[j].hasFolded /\ ps[j].totalBetThisRound >= level}}]

\* the players still in and not all-in who put in more than the highest level
BeyondLevels(ps, levels) ==
    {ps[k].id : k \in {j \in 1..Len(ps) :
        /\ ~ps[j].hasFolded /\ ~ps[j].isAllIn
        /\ ps[j].totalBetThisRound > levels[Len(levels)]}}

\* the ordered pot list for the contributions, fold flags and all-in flags
\* of ps: a pot per all-in level, then the remainder for the players beyond
\* the highest level; without an all-in player one pot for the contributors
\* still in
PotList(ps) ==
    LET levels == AllInLevels(ps)
        levelPots == [i \in 1..Len(levels) |-> LevelPot(ps, levels, i)]
        processed == SumSeq([i \in 1..Len(levels) |-> levelPots[i].amount])
    IN IF levels = <<>>
       THEN <<[amount |-> Contributed(ps),
               eligible |-> {ps[k].id : k \in {j \in 1..Len(ps) :
                               ~ps[j].hasFolded /\ ps[j].totalBetThisRound > 0}}]>>
       ELSE IF BeyondLevels(ps, levels) # {}
       THEN Append(levelPots, [amount |-> Contributed(ps) - processed,
                               eligible |-> BeyondLevels(ps, levels)])
       ELSE levelPots

\* the pot list calculatePots returned, each pot with its eligible players
\* as a set
PotsReturned == [k \in 1..Len(pots) |-> [amount |-> pots[k].amount, eligible |-> Eligible(k)]]

\* C30: at every showdown the pot list calculatePots returned is the list of
\* the pot builder for the players' contributions, fold flags and all-in
\* flags: one pot per distinct all-in level in ascending order, then the
\* remainder pot for the players still in and not all-in who contributed
\* beyond the highest level, or a single pot when nobody is all-in.
C30_PotsAsBuilt ==
    pots # <<>> => PotsReturned = PotList(atShowdown)

----------------------------------------------------------------------------
(* C31 *)

\* the table's bet once players[a] has acted with the outcome s: the higher
\* of the bet before and the bet player_acted reports for the actor
BetAfter(s) ==
    IF s.events # <<>> /\ s.events[1].type = "player_acted"
          /\ s.events[1].amount > currentBet
    THEN s.events[1].amount ELSE currentBet

\* the players other than players[a], as they are before and after an action
\* of players[a], who have not folded, are not all-in and owe chips to the
\* bet or, preflop, have not acted in the round
OwingTo(a, bet) ==
    {i \in OthersIn(a) :
        /\ ~players[i].isAllIn
        /\ \/ players[i].currentBet < bet
           \/ bettingRound = "preflop" /\ players[i].lastAction = NoAction}

\* the first of them in seat order after players[a]
NextOwingTo(a, bet) ==
    CHOOSE i \in OwingTo(a, bet) : \A j \in OwingTo(a, bet) :
        SeatsAfter(players[i].seatIndex, players[a].seatIndex)
        <= SeatsAfter(players[j].seatIndex, players[a].seatIndex)

\* the betting round of the state is over in the outcome s
RoundOver(s) ==
    s.showdownPending \/ ~s.handInProgress \/ s.bettingRound # bettingRound

\* players[a] was not the last but one player in the hand when folding
StillContested(a, action) ==
    Cardinality(OthersIn(a)) >= (IF action = "fold" THEN 2 ELSE 1)

\* C31: wherever a player is on action in a hand, an accepted action that
\* leaves at least two players in the hand puts on action the first player
\* in seat order after the actor who has not folded, is not all-in and
\* either has a currentBet below the table's currentBet or, preflop, has
\* not acted in the round; the betting round ends exactly when there is no
\* such player.
C31_NextActor ==
    (handInProgress /\ HasActivePlayer(Engine)) =>
        \A action \in Actions, amount \in Amounts :
            LET a == activePlayerIndex + 1
                s == handleAction(Engine, players[a].id, action, amount)
                bet == BetAfter(s)
            IN (s.result /\ StillContested(a, action)) =>
                   IF OwingTo(a, bet) # {}
                   THEN /\ ~RoundOver(s)
                        /\ ActiveId(s) = players[NextOwingTo(a, bet)].id
                        /\ s.events[Len(s.events)].type = "action_on"
                        /\ s.events[Len(s.events)].playerId = ActiveId(s)
                   ELSE RoundOver(s)

----------------------------------------------------------------------------
(* C32 *)

\* the players of s who have not folded and are not all-in
CanBet(s) == SelectSeq(NotFolded(s), LAMBDA p : ~p.isAllIn)

ActionOnIn(evs) == \E k \in 1..Len(evs) : evs[k].type = "action_on"

\* C32: wherever a player is on action in a hand, an accepted action that
\* ends the betting round with at least two players who have not folded, of
\* whom at most one is not all-in, emits no action_on: the community cards
\* are dealt up to five and the hand goes to showdown.
C32_AllInRunOut ==
    (handInProgress /\ HasActivePlayer(Engine)) =>
        \A action \in Actions, amount \in Amounts :
            LET s == handleAction(Engine, ActiveId(Engine), action, amount)
            IN (/\ s.result /\ RoundOver(s)
                /\ Len(NotFolded(s)) >= 2 /\ Len(CanBet(s)) <= 1) =>
                   /\ s.showdownPending
                   /\ Len(s.communityCards) = 5
                   /\ ~ActionOnIn(s.events)

\* an accepted action before the river left two players in the hand, one of
\* them all-in and one not: the board was dealt out and the hands were shown
C32_Witness ==
    /\ ret = [op |-> "handleAction", result |-> TRUE]
    /\ ~handInProgress
    /\ Len(communityCards) = 5
    /\ \E k \in 1..Len(events) : events[k].type = "community" /\ events[k].amount = 3
    /\ \E k \in 1..Len(events) : events[k].type = "showdown"
    /\ ~ActionOnIn(events)
    /\ Cardinality({i \in 1..Len(atShowdown) : ~atShowdown[i].hasFolded}) >= 2
    /\ Cardinality({i \in 1..Len(atShowdown) :
                       ~atShowdown[i].hasFolded /\ ~atShowdown[i].isAllIn}) = 1

----------------------------------------------------------------------------
(* C33 *)

Rounds == <<"preflop", "flop", "turn", "river">>

RoundIndex(round) == CHOOSE k \in 1..Len(Rounds) : Rounds[k] = round

\* the community cards on the table in the k-th round
RoundCards(k) == IF k = 1 THEN 0 ELSE k + 1

\* the hole cards in the players' hands
HoleCardsOut == SumSeq([i \in 1..Len(players) |-> Len(players[i].holeCards)])

\* the deck positions of the board when every deal of community cards is
\* preceded by one burnt card: after h hole cards the flop is h+1..h+3, the
\* turn h+5 and the river h+7
BoardAfter(h) == <<h + 1, h + 2, h + 3, h + 5, h + 7>>

\* the community events among evs
CommunityIn(evs) == SelectSeq(evs, LAMBDA e : e.type = "community")

\* the state of the table fits its round: the count of community cards, and
\* the cards taken from the deck with one card burnt before each deal
BoardFitsRound ==
    /\ handInProgress =>
          LET k == RoundIndex(bettingRound)
          IN /\ Len(communityCards) = RoundCards(k)
             /\ communityCards = SubSeq(BoardAfter(HoleCardsOut), 1, RoundCards(k))
             /\ deckCursor = HoleCardsOut + RoundCards(k) + (k - 1)
    /\ atShowdown # <<>> => Len(communityCards) = 5

\* C33: the number of community cards matches the round, 0 preflop, 3 on
\* the flop, 4 on the turn, 5 on the river and at every showdown; within a
\* hand the round only moves forward, and every round it moves through is
\* dealt, in the order flop, turn, river, one community event each; and one
\* card is burnt before the flop, before the turn and before the river.
C33_RoundsAndBoard ==
    [][/\ BoardFitsRound'
       /\ LET from == IF handNumber' # handNumber THEN 1 ELSE RoundIndex(bettingRound)
              to == RoundIndex(bettingRound')
              streets == CommunityIn(events')
          IN /\ to >= from
             /\ Len(streets) = to - from
             /\ \A k \in 1..Len(streets) :
                    /\ streets[k].action = Rounds[from + k]
                    /\ streets[k].amount = RoundCards(from + k)
                    /\ streets[k].cards = SubSeq(communityCards', 1, RoundCards(from + k))]_vars

\* a river was streets by itself after a turn on which the players bet
C33_Witness ==
    /\ handInProgress /\ bettingRound = "river"
    /\ Len(CommunityIn(events)) = 1
    /\ Len(communityCards) = 5
    /\ deckCursor = HoleCardsOut + 8

----------------------------------------------------------------------------
(* C34 *)

\* the cards a hand of n players takes from the deck at most: two hole
\* cards each, three burnt cards and five community cards
CardsOfHand(n) == 2 * n + 8

\* C34 as claimed: with at most 6 players the deck cursor never exceeds 19.
C34_CursorAtMost19 ==
    Len(players) <= MaxPlayers => deckCursor <= 19

\* C34: with at most 6 players the deck cursor never exceeds 20, the twelve
\* hole cards, three burnt cards and five community cards of a hand of six
\* dealt to the river, so that deal never finds the deck exhausted.
C34_DeckLasts ==
    Len(players) <= MaxPlayers =>
        /\ handInProgress => deckCursor <= CardsOfHand(Len(players))
        /\ deckCursor <= 20
        /\ deckCursor < DeckSize
        /\ deal(Engine).deckCursor = deckCursor + 1

\* six players were dealt in and the river is on the table
C34_Witness ==
    /\ Len(players) = MaxPlayers
    /\ HoleCardsOut = 12
    /\ Len(communityCards) = 5
    /\ deckCursor = 20

----------------------------------------------------------------------------
(* C35 *)

\* C35: wherever a player is on action in a hand, an accepted action that
\* ends the betting round with at least two players still in the hand finds
\* that every other player who has not folded and is not all-in has acted in
\* the round, and so has been on action in it; in particular a round after
\* the flop does not end with the first player's check.
C35_EveryoneActs ==
    (handInProgress /\ HasActivePlayer(Engine)) =>
        \A action \in Actions, amount \in Amounts :
            LET a == activePlayerIndex + 1
                s == handleAction(Engine, players[a].id, action, amount)
            IN (s.result /\ RoundOver(s) /\ Len(NotFolded(s)) >= 2) =>
                   \A i \in OthersIn(a) :
                       ~players[i].isAllIn => players[i].lastAction # NoAction

----------------------------------------------------------------------------
(* C36 *)

\* the outcome s deals community cards or goes to showdown
RoundEnds(s) == s.showdownPending \/ CommunityIn(s.events) # <<>>

\* C36: wherever a player is on action in a hand, an accepted action ends
\* the betting round (deals community cards or goes to showdown) only if no
\* other player who has not folded and is not all-in has a currentBet below
\* the table's currentBet, whether or not setPlayerConnected(id, false) was
\* called for a player during the hand.
C36_RoundEndsSquare ==
    (handInProgress /\ HasActivePlayer(Engine)) =>
        \A action \in Actions, amount \in Amounts :
            LET a == activePlayerIndex + 1
                s == handleAction(Engine, players[a].id, action, amount)
            IN (s.result /\ RoundEnds(s)) =>
                   \A i \in OthersIn(a) :
                       ~players[i].isAllIn => players[i].currentBet >= BetAfter(s)

----------------------------------------------------------------------------
(* C37 *)

\* the chips players[j] has put into the hand once players[a] has acted with
\* the outcome o: the actor's action adds to the pot what it adds to the
\* actor's totalBetThisRound
PutIn(j, a, o) ==
    players[j].totalBetThisRound + (IF j = a THEN o.pot - pot ELSE 0)

\* what players[i] can win at most: from every player, the chips that
\* player put in, up to the chips players[i] put in
WinCap(i, a, o) ==
    SumSeq([j \in 1..Len(players) |-> Min(PutIn(j, a, o), PutIn(i, a, o))])

\* the chips the outcome o pays to the player id
PaidIn(o, id) ==
    SumSeq([k \in 1..Len(o.winners) |->
               IF o.winners[k].playerId = id THEN o.winners[k].amount ELSE 0])

----------------------------------------------------------------------------
(* C38 *)

\* C38: in a hand in progress, addPlayer, accepted or rejected, leaves the
\* player on action the same: getActivePlayer() names the same player
\* before and after the call, the player the pending timer was armed for
\* by the last action_on.
C38_JoinKeepsActor ==
    handInProgress =>
        \A id \in Ids, seatIndex \in JoinSeats :
            LET s == addPlayer(Engine, id, seatIndex)
            IN /\ ActiveId(s) = ActiveId(Engine)
               /\ (actionTimer # NoId /\ actionTimer = ActiveId(Engine))
                      => ActiveId(s) = s.actionTimer

----------------------------------------------------------------------------
(* C39 *)

\* the action, with its amount, is among the validActions va: a raise by
\* its amount between minAmount and maxAmount, an all-in as the raise of the
\* whole stack
InValidActions(va, p, action, amount) ==
    \/ action \in {"fold", "check", "call"} /\ Offers(va, action) # {}
    \/ /\ action = "raise"
       /\ \E k \in Offers(va, "raise") :
              va[k].minAmount <= amount /\ amount <= va[k].maxAmount
    \/ /\ action = "all-in"
       /\ \E k \in Offers(va, "raise") : va[k].maxAmount = p.chips

\* C39 as claimed: handleAction accepts an action of the player on action
\* only if the action, with its amount, is in the validActions of that
\* player's action_on: a call only when to_call > 0, a raise or all-in only
\* when the player's chips exceed to_call.
C39_OnlyValidAccepted ==
    (handInProgress /\ HasActivePlayer(Engine)) =>
        \A action \in Actions, amount \in Amounts :
            LET p == getActivePlayer(Engine)
                s == handleAction(Engine, p.id, action, amount)
            IN s.result =>
                   InValidActions(getValidActions(Engine, p), p, action, amount)

\* C39: handleAction accepts an action of the player on action exactly when
\* it is a fold, a check with to_call <= 0, a call (which commits
\* min(to_call, chips), nothing when there is nothing to call), or a raise or
\* all-in whose chips reach the minimum raise or are the player's whole
\* stack (an all-in for less than the call included).  Every action of the
\* validActions of the player's action_on is accepted, a raise with its
\* minAmount and with its maxAmount.
C39_Accepted ==
    (handInProgress /\ HasActivePlayer(Engine)) =>
        LET p == getActivePlayer(Engine)
            toCall == currentBet - p.currentBet
            va == getValidActions(Engine, p)
        IN /\ \A action \in Actions, amount \in Amounts :
                  LET s == handleAction(Engine, p.id, action, amount)
                      raiseAmount == IF action = "all-in"
                                        \/ (amount # 0 /\ amount >= p.chips)
                                     THEN p.chips ELSE amount
                  IN s.result <=>
                         \/ action = "fold"
                         \/ action = "check" /\ toCall <= 0
                         \/ action = "call"
                         \/ /\ action \in {"raise", "all-in"}
                            /\ \/ raiseAmount >= currentBet + minRaise - p.currentBet
                               \/ raiseAmount >= p.chips
           /\ \A k \in 1..Len(va) :
                  /\ handleAction(Engine, p.id, va[k].action, va[k].minAmount).result
                  /\ handleAction(Engine, p.id, va[k].action, va[k].maxAmount).result

\* an all-in for less than the call was accepted: the player's chips did not
\* exceed to_call, and raise was not among the player's validActions
C39_Witness ==
    /\ ret = [op |-> "handleAction", result |-> TRUE]
    /\ events # <<>>
    /\ events[1].type = "player_acted"
    /\ events[1].action = "all-in"
    /\ events[1].amount < currentBet

----------------------------------------------------------------------------
(* C40 *)

\* the chips the players of s still hold
ChipsBehind(s) == SumSeq([i \in 1..Len(s.players) |-> s.players[i].chips])

\* the betting rounds that follow the round of s
RoundsLeft(s) == Len(Rounds) - RoundIndex(s.bettingRound)

\* the players of s the betting round still waits for: the player on action
\* and the players who have not folded, are not all-in and owe chips to the
\* bet or, preflop, have not acted in the round
WaitedFor(s) ==
    {i \in 1..Len(s.players) :
        \/ i = s.activePlayerIndex + 1
        \/ /\ ~s.players[i].hasFolded /\ ~s.players[i].isAllIn
           /\ \/ s.players[i].currentBet < s.currentBet
              \/ s.bettingRound = "preflop" /\ s.players[i].lastAction = NoAction}

\* what is left of the hand of s: the chips behind, the rounds to come, the
\* players in the hand and the players the round waits for
HandMeasure(s) ==
    <<ChipsBehind(s), RoundsLeft(s), Len(NotFolded(s)), Cardinality(WaitedFor(s))>>

\* the lexicographic order of the measures, well-founded on the naturals
MeasureBelow(m, n) ==
    \E k \in 1..Len(m) : m[k] < n[k] /\ \A j \in 1..(k - 1) : m[j] = n[j]

\* the outcome o is the end of the hand: hand_end is the last event, no hand
\* is in progress and no seat is active
HandOver(o) ==
    /\ ~o.handInProgress
    /\ o.activePlayerIndex = -1
    /\ o.events # <<>>
    /\ o.events[Len(o.events)].type = "hand_end"

====
